---- MODULE Spec2Model ----
(***************************************************************************)
(* HttpConnection (httpconnection.cpp): the request executor send_request, *)
(* the per-thread PoolEntry (recycle deadline, remote IP, pending DNS      *)
(* overrides) and the SNMP remote-IP counter table shared by the threads.  *)
(*                                                                         *)
(* Spec      one thread running whole send_request calls, attempt by       *)
(*           attempt, against an arbitrary resolver and transport.         *)
(* SpecConc  several threads; the attempt loop of a call is summarised by  *)
(*           its result (rc, remote_ip) and set_remote_ip is interleaved   *)
(*           at the granularity of lock / decrement / remove / increment / *)
(*           unlock / store.                                               *)
(***************************************************************************)
EXTENDS Integers, Sequences, FiniteSets, TLC

VARIABLES
  pc,           \* per thread: position in send_request / set_remote_ip / cleanup_curl
  curl,         \* per thread: the thread-local CURL handle (exists, the values
                \* CURLINFO_PRIMARY_IP may have, the CURLOPT_RESOLVE list
                \* it was last given, the host:port entries that list put
                \* in its DNS cache)
  deadline_ms,  \* per thread: PoolEntry::_deadline_ms
  remote_ip,    \* per thread: PoolEntry::_remote_ip
  host_resolve, \* per thread: PoolEntry::_host_resolve (pending CURLOPT_RESOLVE directives)
  stat_table,   \* HttpConnection::_stat_table rows: printable IP -> count
  lock,         \* HttpConnection::_lock: 0 when free, else the holding thread
  clock,        \* CLOCK_MONOTONIC in ms
  attached,     \* which optional collaborators the constructor was given
  loc,          \* per thread: the locals of the running send_request / set_remote_ip
  obs,          \* per thread: what the current (or last) call did, as seen from outside
  target_latency_us, \* LoadMonitor::get_target_latency_us() of the load monitor
                \* given to the constructor (0 when none was given)
  timeout_ms,   \* HttpConnection::_timeout_ms (0 until the constructor sets it)
  assert_user,  \* HttpConnection::_assert_user
  request,      \* the last public send operation: its arguments and the header
                \* list it set as CURLOPT_HTTPHEADER
  server,       \* HttpConnection::_server, _host and _port
  view,         \* per thread: the override_server its call was given and what
                \* the call read of _server, _host and _port
  sampled,      \* per thread: the samples PoolEntry::_rand has given and the
                \* last update_deadline that drew one
  response, \* the call whose response headers are being received: the caller's header map and the header lines of the latest attempt
  http_request, \* the HttpRequest being built and sent: its allowed host
                \* state, the mask its resolve call was given, the targets
                \* returned and attempted
  handle,       \* the per-request options of the CURL handle: as the last
                \* transfer had them and as they are now
  stack,        \* Diameter::Stack: _peers, _peers_lock, the running fd_hook_cb
                \* and what the last callback did
  timeout_ts    \* Diameter::Stack::send: the clock it read, its timeout_ms and
                \* the timespec it gave to fd_msg_send_timeout

\* The executor-level state that send_request and set_remote_ip leave alone
executor_vars == <<target_latency_us, timeout_ms, assert_user, request,
                   server, view,
                 sampled,
                 response,
                 http_request,
                 handle,
                 stack,
                 timeout_ts>>

vars == <<pc, curl, deadline_ms, remote_ip, host_resolve, stat_table, lock,
          clock, attached, loc, obs, executor_vars>>

----------------------------------------------------------------------------
(* Bounds of the model *)

NumWorkers == 2
NumIps == 2
MaxResolved == 2
MaxNow == 2
MaxInterval == 1

(* Program constants *)

MAX_TARGETS == 5
HTTP_BAD_REQUEST == 400
HTTP_NOT_FOUND == 404
HTTP_SERVER_ERROR == 500
DEFAULT_HTTP_PORT == 80
server_port == 0

Workers == 1..NumWorkers
SeqWorkers == {1}

Min(a, b) == IF a < b THEN a ELSE b

----------------------------------------------------------------------------
(* Addresses, targets and the transport's result codes *)

Ips == 1..NumIps

\* inet_ntop: address bytes to printable string
inet_ntop(a) == "10.0.0." \o ToString(a)

IpStrs == {inet_ntop(a) : a \in Ips}

\* An address that is the address of no target
NoAddress == 0

\* What the address of a default-constructed AddrInfo may hold before
\* anything is written to it
Indeterminate == Ips \cup {NoAddress}

\* BaseResolver::parse_ip_target: printable string to address bytes, written
\* to the out-parameter address; it is left as it was when s does not parse
parse_ip_target(s, address) ==
  IF \E a \in Ips : inet_ntop(a) = s
  THEN CHOOSE a \in Ips : inet_ntop(a) = s
  ELSE address

\* The port the executor asks the resolver for and expects on a target
target_port == IF server_port # 0 THEN server_port ELSE DEFAULT_HTTP_PORT

\* AddrInfo: (address, port, transport); equality is by all fields
AddrInfo(a) == [address |-> a, port |-> target_port, transport |-> "TCP"]

Targets == {AddrInfo(a) : a \in Ips}

\* HttpResolver::resolve: up to MAX_TARGETS targets, in the resolver's order,
\* no target twice
ResolverResults ==
  { t \in UNION {[1..n -> Targets] : n \in 0..Min(MaxResolved, MAX_TARGETS)} :
      \A j, k \in 1..Len(t) : j # k => t[j] # t[k] }

CurlCodes ==
  {"CURLE_OK", "CURLE_URL_MALFORMAT", "CURLE_NOT_BUILT_IN",
   "CURLE_REMOTE_FILE_NOT_FOUND", "CURLE_REMOTE_ACCESS_DENIED",
   "CURLE_COULDNT_RESOLVE_PROXY", "CURLE_COULDNT_RESOLVE_HOST",
   "CURLE_COULDNT_CONNECT", "CURLE_AGAIN",
   "CURLE_OPERATION_TIMEDOUT", "CURLE_SEND_ERROR", "CURLE_RECV_ERROR",
   "CURLE_GOT_NOTHING"}

HttpCodes == {200, 399, 400, 404, 500, 503, 504}

\* curl_easy_perform's result: the CURLcode and, when it is CURLE_OK, the
\* response code of the wire (send_request reads it in no other case)
PerformResults ==
  {[rc |-> "CURLE_OK", http_rc |-> h] : h \in HttpCodes}
    \cup {[rc |-> c, http_rc |-> 0] : c \in CurlCodes \ {"CURLE_OK"}}

\* CURLINFO_PRIMARY_IP after curl_easy_perform to target t: the peer of the
\* connection used. After a failed transfer the transport may or may not
\* have got as far as a connection to t: the handle then carries both
\* values, and the first read of CURLINFO_PRIMARY_IP settles which it is
PrimaryIpAfter(t, r) ==
  IF r.rc = "CURLE_OK" THEN {inet_ntop(t.address)}
  ELSE {"", inet_ntop(t.address)}

NULL == "NULL"

\* SNMP::IPCountTable: a row per printable IP, each holding a count
NoRows == [ip \in {} |-> 0]

\* IPCountTable::get: the row of ip, created with count 0 when absent
TableGet(table, ip) == IF ip \in DOMAIN table THEN table ELSE table @@ (ip :> 0)

\* IPCountTable::remove: the table without the row of ip
TableRemove(table, ip) == [x \in DOMAIN table \ {ip} |-> table[x]]

\* get(ip)->decrement(): the table with the count of ip lowered by one
DecrementRow(table, ip) == [TableGet(table, ip) EXCEPT ![ip] = @ - 1]

\* get(ip)->increment(): the table with the count of ip raised by one
IncrementRow(table, ip) == [TableGet(table, ip) EXCEPT ![ip] = @ + 1]

----------------------------------------------------------------------------
(* Pure helpers of send_request *)

\* PoolEntry::is_connection_expired
is_connection_expired_AtDeadline(now, deadline) == now >= deadline

is_connection_expired(now, deadline) == now > deadline

\* PoolEntry::update_deadline, with interval the sample drawn from _rand
\* Variant of update_deadline that always counts from now
update_deadline_AlwaysFromNow(deadline, now, interval) == now + interval

update_deadline_FromInterval(deadline, now, interval) ==
  IF deadline = 0 \/ deadline + interval < now
  THEN interval
  ELSE deadline + interval

\* Variant of update_deadline that always counts from the old deadline
update_deadline_FromOldDeadline(deadline, now, interval) == deadline + interval

update_deadline(deadline, now, interval) ==
  IF deadline = 0 \/ deadline + interval < now
  THEN now + interval
  ELSE deadline + interval

\* std::remove + erase: the list without the elements equal to ai
EraseAll(targets, ai) == SelectSeq(targets, LAMBDA t : t # ai)

\* Variant of StickyFirst that reorders on an expired connection too
StickyFirst_Always(targets, primary_ip, address, recycle_conn) ==
  LET ai == [address |-> parse_ip_target(primary_ip, address),
             port |-> target_port,
             transport |-> "TCP"]
      erased == EraseAll(targets, ai)
  IN IF Len(erased) < Len(targets) THEN <<ai>> \o erased ELSE erased

\* send_request: move the current connection's peer to the front of the
\* list; address is what the local ai holds before parse_ip_target is called
StickyFirst(targets, primary_ip, address, recycle_conn) ==
  IF recycle_conn THEN targets
  ELSE
    LET ai == [address |-> parse_ip_target(primary_ip, address),
               port |-> target_port,
               transport |-> "TCP"]
        erased == EraseAll(targets, ai)
    IN IF Len(erased) < Len(targets) THEN <<ai>> \o erased ELSE erased

\* Variant of CloneSingleTarget that leaves a single target alone
CloneSingleTarget_NoClone(targets) == targets

\* send_request: a single target is cloned, to retry at least once
CloneSingleTarget(targets) ==
  IF Len(targets) = 1 THEN Append(targets, targets[1]) ELSE targets

\* send_request: the attempt succeeded
IsSuccess(rc, http_rc) == rc = "CURLE_OK" /\ ~(http_rc >= 400)

\* Variant of ShouldBlacklist that blacklists only on CURLE_COULDNT_CONNECT
ShouldBlacklist_ConnectOnly(recycle_conn, rc, http_rc) ==
  /\ recycle_conn
  /\ rc = "CURLE_COULDNT_CONNECT"

\* send_request: blacklist the address after a failure on a forced new connection
\* Variant of ShouldBlacklist that does not ask whether a new connection was
\* forced
ShouldBlacklist_AnyConnection(recycle_conn, rc, http_rc) ==
  /\ ~(http_rc >= 400)
  /\ rc # "CURLE_REMOTE_FILE_NOT_FOUND"
  /\ rc # "CURLE_REMOTE_ACCESS_DENIED"

ShouldBlacklist(recycle_conn, rc, http_rc) ==
  /\ recycle_conn
  /\ ~(http_rc >= 400)
  /\ rc # "CURLE_REMOTE_FILE_NOT_FOUND"
  /\ rc # "CURLE_REMOTE_ACCESS_DENIED"

\* send_request: determine the failure mode and update the correct counter
CountFailure(l, rc, http_rc) ==
  IF http_rc >= 400
  THEN IF http_rc = 503
       THEN [l EXCEPT !.num_http_503_responses = @ + 1, !.fatal_http_error = FALSE]
       ELSE IF http_rc = 504
            THEN [l EXCEPT !.num_http_504_responses = @ + 1, !.fatal_http_error = FALSE]
            ELSE [l EXCEPT !.fatal_http_error = TRUE]
  ELSE IF rc = "CURLE_REMOTE_FILE_NOT_FOUND" \/ rc = "CURLE_REMOTE_ACCESS_DENIED"
       THEN [l EXCEPT !.fatal_http_error = TRUE]
       ELSE IF \/ rc = "CURLE_OPERATION_TIMEDOUT"
               \/ rc = "CURLE_SEND_ERROR"
               \/ rc = "CURLE_RECV_ERROR"
            THEN [l EXCEPT !.num_timeouts_or_io_errors = @ + 1, !.fatal_http_error = FALSE]
            ELSE [l EXCEPT !.fatal_http_error = FALSE]

\* Variant of ShouldStop without the 504 clause
ShouldStop_Without504(l) ==
  \/ l.num_http_503_responses + l.num_timeouts_or_io_errors >= 2
  \/ l.fatal_http_error

\* send_request: decide whether to keep trying
\* Variant of ShouldStop that gives up after any failed attempt
ShouldStop_OnAnyFailure(l) == TRUE

ShouldStop(l) ==
  \/ l.num_http_503_responses + l.num_timeouts_or_io_errors >= 2
  \/ l.num_http_504_responses >= 1
  \/ l.fatal_http_error

\* Variant of ShouldPenalise that counts timeouts and I/O errors with the 503s
ShouldPenalise_CountsTimeouts(l, load_monitor) ==
  /\ \/ l.num_http_503_responses + l.num_timeouts_or_io_errors >= 2
     \/ l.num_http_504_responses >= 1
  /\ load_monitor

\* send_request: check whether we should apply a penalty
ShouldPenalise(l, load_monitor) ==
  /\ l.num_http_503_responses >= 2 \/ l.num_http_504_responses >= 1
  /\ load_monitor

\* Variant of curl_code_to_http_code in which a refused connection is a 500
curl_code_to_http_code_ConnectIs500(rc, response_code) ==
  CASE rc = "CURLE_OK" -> response_code
    [] rc \in {"CURLE_URL_MALFORMAT", "CURLE_NOT_BUILT_IN"} -> HTTP_BAD_REQUEST
    [] rc = "CURLE_REMOTE_FILE_NOT_FOUND" -> HTTP_NOT_FOUND
    [] rc \in {"CURLE_COULDNT_RESOLVE_PROXY", "CURLE_COULDNT_RESOLVE_HOST",
               "CURLE_AGAIN"} -> HTTP_NOT_FOUND
    [] OTHER -> HTTP_SERVER_ERROR

\* HttpConnection::curl_code_to_http_code
\* Variant of curl_code_to_http_code that takes a failure to resolve the
\* host for a server error
curl_code_to_http_code_ResolveIs500(rc, response_code) ==
  CASE rc = "CURLE_OK" -> response_code
    [] rc \in {"CURLE_URL_MALFORMAT", "CURLE_NOT_BUILT_IN"} -> HTTP_BAD_REQUEST
    [] rc = "CURLE_REMOTE_FILE_NOT_FOUND" -> HTTP_NOT_FOUND
    [] rc \in {"CURLE_COULDNT_RESOLVE_PROXY",
               "CURLE_COULDNT_CONNECT", "CURLE_AGAIN"} -> HTTP_NOT_FOUND
    [] OTHER -> HTTP_SERVER_ERROR

curl_code_to_http_code(rc, response_code) ==
  CASE rc = "CURLE_OK" -> response_code
    [] rc \in {"CURLE_URL_MALFORMAT", "CURLE_NOT_BUILT_IN"} -> HTTP_BAD_REQUEST
    [] rc = "CURLE_REMOTE_FILE_NOT_FOUND" -> HTTP_NOT_FOUND
    [] rc \in {"CURLE_COULDNT_RESOLVE_PROXY", "CURLE_COULDNT_RESOLVE_HOST",
               "CURLE_COULDNT_CONNECT", "CURLE_AGAIN"} -> HTTP_NOT_FOUND
    [] OTHER -> HTTP_SERVER_ERROR

\* The outcome bucket of one attempt, as the branches of send_request sort it
Classify(rc, http_rc) ==
  CASE rc = "CURLE_OK" /\ http_rc < 400 -> "ok"
    [] rc = "CURLE_OK" /\ http_rc = 503 -> "http_503"
    [] rc = "CURLE_OK" /\ http_rc = 504 -> "http_504"
    [] rc = "CURLE_OK" /\ http_rc >= 400 /\ http_rc \notin {503, 504} -> "fatal_http"
    [] rc \in {"CURLE_REMOTE_FILE_NOT_FOUND", "CURLE_REMOTE_ACCESS_DENIED"} -> "fatal_http"
    [] rc \in {"CURLE_OPERATION_TIMEDOUT", "CURLE_SEND_ERROR", "CURLE_RECV_ERROR"}
         -> "timeout_or_io"
    [] OTHER -> "connect_failure"

----------------------------------------------------------------------------
(* Initial state *)

\* Bound on the small target latencies tried, in microseconds
MaxLatency == 400

TIMEOUT_LATENCY_MULTIPLIER == 5

DEFAULT_LATENCY_US == 500000

\* The largest value of the int parameter latency_us
INT_MAX == 2147483647

\* Half a 32-bit word: the product is computed in two such limbs
Limb == 256 * 256

Max(a, b) == IF a >= b THEN a ELSE b

\* C++ integer division: the quotient is truncated towards zero
TruncDiv(a, b) == IF a >= 0 THEN a \div b ELSE 0 - ((0 - a) \div b)

\* a * b in 32-bit two's complement, for 0 <= a <= INT_MAX and a small b >= 0
WrapMul32(a, b) ==
  LET lo == (a % Limb) * b
      hi == (((a \div Limb) * b) + (lo \div Limb)) % Limb
  IN IF hi >= Limb \div 2
     THEN (hi - Limb) * Limb + (lo % Limb)
     ELSE hi * Limb + (lo % Limb)

\* HttpConnection::calc_req_timeout_from_latency: the values it may return.
\* latency_us * TIMEOUT_LATENCY_MULTIPLIER is an int product; when it does
\* not fit into an int the behaviour is undefined, and a build either wraps
\* the product or folds the multiplication into the division
calc_req_timeout_from_latency(latency_us) ==
  IF latency_us <= INT_MAX \div TIMEOUT_LATENCY_MULTIPLIER
  THEN {Max(1, TruncDiv(latency_us * TIMEOUT_LATENCY_MULTIPLIER, 1000))}
  ELSE {Max(1, TruncDiv(WrapMul32(latency_us, TIMEOUT_LATENCY_MULTIPLIER), 1000)),
        Max(1, TruncDiv(latency_us, 1000 \div TIMEOUT_LATENCY_MULTIPLIER))}

\* The latency the constructor computes the timeout from
LatencyUsed(load_monitor, latency_us) ==
  IF load_monitor THEN latency_us ELSE DEFAULT_LATENCY_US

\* Target latencies a load monitor may be configured with: the small ones,
\* the default, the two around the largest whose product fits, the largest
Latencies ==
  (1..MaxLatency)
    \cup {DEFAULT_LATENCY_US,
          INT_MAX \div TIMEOUT_LATENCY_MULTIPLIER,
          INT_MAX \div TIMEOUT_LATENCY_MULTIPLIER + 1,
          INT_MAX}

\* Bound on the number of extra request headers a caller passes
MaxExtras == 2

\* A header line "name: value" of a curl_slist
Header(name, value) == [name |-> name, value |-> value]

HTTP_BRANCH_HEADER_NAME == "X-SAS-HTTP-Branch-ID"

\* Header lines a caller may pass as extra request headers
ExtraHeaders ==
  {Header("Expect", "100-continue"), Header("Expect", ""), Header("X-Extra", "1")}

ExtrasLists == UNION {[1..n -> ExtraHeaders] : n \in 0..MaxExtras}

Bodies == {"", "{}"}

Usernames == {"", "alice"}

\* Variant of RequestHeaders that starts from the caller's headers
RequestHeaders_ExtrasFirst(body, headers_to_add, username, assert) ==
  headers_to_add
    \o <<Header("Expect", "")>>
    \o <<Header(HTTP_BRANCH_HEADER_NAME, "uuid")>>
    \o (IF assert THEN <<Header("X-XCAP-Asserted-Identity", username)>> ELSE <<>>)
    \o (IF body # "" THEN <<Header("Content-Type", "application/json")>> ELSE <<>>)

\* send_request: the curl_slist extra_headers it builds and sets as
\* CURLOPT_HTTPHEADER (the correlation header carries a new UUID, here "uuid")
RequestHeaders(body, headers_to_add, username, assert) ==
  (IF body # "" THEN <<Header("Content-Type", "application/json")>> ELSE <<>>)
    \o <<Header(HTTP_BRANCH_HEADER_NAME, "uuid")>>
    \o <<Header("Expect", "")>>
    \o headers_to_add
    \o (IF assert THEN <<Header("X-XCAP-Asserted-Identity", username)>> ELSE <<>>)

\* No public send operation has been called
NoRequest ==
  [method |-> "none", body |-> "", username |-> "", headers_to_add |-> <<>>,
   http_header |-> <<>>, caller_username |-> ""]

\* What a public send operation passes to send_request, and the header list
\* send_request hands to the transport; caller_username is the username the
\* operation itself was given
Call(method, body, username, headers_to_add, assert) ==
  [method |-> method, body |-> body, username |-> username,
   headers_to_add |-> headers_to_add,
   http_header |-> RequestHeaders(body, headers_to_add, username, assert),
   caller_username |-> username]

\* Bound on the number of servers a caller may name as override_server
NumServers == 2

\* A server string "host:port", held as its two parts
ServerName(host, port) == [host |-> host, port |-> port]

\* The server the executor was constructed for: no port given
ConstructedServer == ServerName("hs", server_port)

OverrideServers == {ServerName("hs-" \o ToString(n), 8000 + n) : n \in 1..NumServers}

host_from_server(s) == s.host

port_from_server(s) == s.port

\* _server, _host and _port as the constructor and change_server derive them
ServerFields(s) ==
  [server |-> s, host |-> host_from_server(s), port |-> port_from_server(s)]

NoServer == ServerName("", 0)

\* What a read of a std::string may give while another thread assigns to it:
\* neither the old nor the new value
Torn == [server |-> ServerName("?", 0), host |-> "?"]

NoView == [override |-> NoServer, url |-> NoServer, host |-> "", port |-> 0]

\* Bounds on the deadlines an entry starts from and on the updates made
MaxDeadline == 3

MaxUpdates == 2

\* A header line is a string, modelled as the sequence of its characters
MaxLines == 2
HeaderLines ==
  { <<"E", ":", " ", "a">>, <<"e", ":", "b">>, <<"R", ":", "a">>, <<"x">>,
    <<"R", " ", ":", "a", ":", " ", "b">> }

\* What one transfer can receive as header lines, in order
ResponseHeaderLines == UNION {[1..n -> HeaderLines] : n \in 0..MaxLines}

\* ::tolower and ::isspace on the characters used here
tolower(c) == CASE c = "E" -> "e" [] c = "R" -> "r" [] OTHER -> c
isspace(c) == c = " "

\* std::string::find(":") (npos is 0 here)
npos == 0
find_colon(headerString) ==
  IF \E k \in 1..Len(headerString) : headerString[k] = ":"
  THEN CHOOSE k \in 1..Len(headerString) :
         /\ headerString[k] = ":"
         /\ \A j \in 1..(k - 1) : headerString[j] # ":"
  ELSE npos

\* A std::map<std::string, std::string> with no key
EmptyMap == [key \in {} |-> <<>>]

\* Variant of write_headers that keeps the value a key already has
write_headers_FirstWins(headerString, headers) ==
  LET colon_loc == find_colon(headerString)
      key0 == IF colon_loc = npos THEN headerString
              ELSE SubSeq(headerString, 1, colon_loc - 1)
      val0 == IF colon_loc = npos THEN <<>>
              ELSE SubSeq(headerString, colon_loc + 1, Len(headerString))
      lower == [k \in 1..Len(key0) |-> tolower(key0[k])]
      key == SelectSeq(lower, LAMBDA c : ~isspace(c))
      val == SelectSeq(val0, LAMBDA c : ~isspace(c))
  IN [k \in DOMAIN headers \cup {key} |->
        IF k \in DOMAIN headers THEN headers[k] ELSE val]

\* HttpConnection::write_headers: split at the first colon, lowercase the key,
\* remove the whitespace of key and value, (*headers)[key] = val
write_headers(headerString, headers) ==
  LET colon_loc == find_colon(headerString)
      key0 == IF colon_loc = npos THEN headerString
              ELSE SubSeq(headerString, 1, colon_loc - 1)
      val0 == IF colon_loc = npos THEN <<>>
              ELSE SubSeq(headerString, colon_loc + 1, Len(headerString))
      lower == [k \in 1..Len(key0) |-> tolower(key0[k])]
      key == SelectSeq(lower, LAMBDA c : ~isspace(c))
      val == SelectSeq(val0, LAMBDA c : ~isspace(c))
  IN [k \in DOMAIN headers \cup {key} |-> IF k = key THEN val ELSE headers[k]]

\* The header callback called once per header line of a transfer, in order
RECURSIVE WriteAll(_, _)
WriteAll(lines, headers) ==
  IF lines = <<>> THEN headers
  ELSE WriteAll(Tail(lines), write_headers(Head(lines), headers))

\* What write_headers returns for a line: size * nmemb
write_headers_return(headerString) == Len(headerString)

\* What the transfer is told was consumed, line by line
ConsumedAfterPerform(header_function, lines) ==
  IF header_function
  THEN [k \in 1..Len(lines) |-> write_headers_return(lines[k])]
  ELSE <<>>

\* What the transfer does with its header lines: with CURLOPT_HEADERFUNCTION
\* and CURLOPT_WRITEHEADER set they go to the callback, else nowhere
HeadersAfterPerform(header_function, lines, headers) ==
  IF header_function THEN WriteAll(lines, headers) ELSE headers

\* No call is receiving a response
NoResponse ==
  [method |-> "none", header_function |-> FALSE, headers |-> EmptyMap,
   lines |-> <<>>, consumed |-> <<>>, attempts |-> 0, returned |-> FALSE]

\* The states the resolver keeps a host in, and BaseResolver::ALL_LISTS
HostStates == {"whitelisted", "blacklisted"}
ALL_LISTS == HostStates

\* The masks a caller can give: any combination of host states
HostStateMasks == SUBSET HostStates

\* An HttpRequest as constructed: _allowed_host_state = ALL_LISTS
NoHttpRequest ==
  [built |-> FALSE, sent |-> FALSE, overwritten |-> FALSE,
   allowed_host_state |-> ALL_LISTS,
   resolve_mask |-> {}, host_state |-> <<>>, targets |-> <<>>, attempted |-> 0]

\* The per-request options of a CURL handle at their defaults: no header
\* list, no custom verb, no header destination, no body, no header
\* callback, POST off
NoOptions ==
  [http_header |-> <<>>, custom_request |-> "", write_header |-> FALSE,
   postfields |-> "", header_function |-> FALSE, post |-> FALSE]

\* A handle no request has used
NoHandle ==
  [sent |-> NoOptions, now |-> NoOptions,
   previous |-> [method |-> "none", body |-> FALSE]]

\* Variant of reset_curl_handle that leaves CURLOPT_POSTFIELDS as it is
reset_curl_handle_KeepsBody(o) ==
  [o EXCEPT !.http_header = <<>>, !.custom_request = "", !.write_header = FALSE,
            !.header_function = FALSE, !.post = FALSE]

\* reset_curl_handle
reset_curl_handle(o) ==
  [o EXCEPT !.http_header = <<>>, !.custom_request = "", !.write_header = FALSE,
            !.postfields = "", !.header_function = FALSE, !.post = FALSE]

\* The options a public send operation sets before it calls send_request
MethodOptions(o, method) ==
  CASE method = "GET" -> o
    [] method = "PUT" ->
         [o EXCEPT !.custom_request = "PUT", !.header_function = TRUE,
                   !.write_header = TRUE]
    [] method = "POST" ->
         [o EXCEPT !.post = TRUE, !.header_function = TRUE,
                   !.write_header = TRUE]
    [] method = "DELETE" ->
         [o EXCEPT !.http_header = <<Header("Expect", "")>>,
                   !.custom_request = "DELETE"]

\* The options send_request sets before the loop: the body when there is
\* one, and the header list
RequestOptions(o, req) ==
  [o EXCEPT !.postfields = IF req.body # "" THEN req.body ELSE @,
            !.http_header = req.http_header]

\* The handle after a public send operation has returned: the options its
\* transfers ran with, and the options after reset_curl_handle
HandleAfter(h, req) ==
  LET sent == RequestOptions(MethodOptions(h.now, req.method), req)
  IN [sent |-> sent,
      now |-> reset_curl_handle(sent),
      previous |-> [method |-> request.method, body |-> request.body # ""]]

\* An entry whose sampler has not been asked yet
NoSample == [draws |-> 0, updates |-> 0, before |-> 0, now |-> 0, interval |-> 0]

\* The two constructors: one takes the SNMP table, the load monitor and the
\* communication monitor, the other leaves the table and the load monitor NULL
Constructed ==
  {[load_monitor |-> TRUE, comm_monitor |-> TRUE, stat_table |-> TRUE],
   [load_monitor |-> FALSE, comm_monitor |-> FALSE, stat_table |-> FALSE]}

\* Variant of NoLocals in which rc starts as CURLE_OK
NoLocals_RcOk ==
  [now_ms |-> 0, recycle_conn |-> FALSE, targets |-> <<>>, i |-> 1,
   num_http_503_responses |-> 0, num_http_504_responses |-> 0,
   num_timeouts_or_io_errors |-> 0, fatal_http_error |-> FALSE,
   rc |-> "CURLE_OK", http_rc |-> 0, remote_ip |-> NULL,
   http_code |-> 0, value |-> "", ret |-> "idle", doc |-> <<>>]

NoLocals ==
  [now_ms |-> 0, recycle_conn |-> FALSE, targets |-> <<>>, i |-> 1,
   num_http_503_responses |-> 0, num_http_504_responses |-> 0,
   num_timeouts_or_io_errors |-> 0, fatal_http_error |-> FALSE,
   rc |-> "CURLE_COULDNT_RESOLVE_HOST", http_rc |-> 0, remote_ip |-> NULL,
   http_code |-> 0, value |-> "", ret |-> "idle", doc |-> <<>>]

NoObs ==
  [returned |-> FALSE, resolved |-> <<>>, primary_ip |-> "", remote_ip |-> "",
   deadline_ms |-> 0,
   attempts |-> <<>>, perform |-> [rc |-> "none", http_rc |-> 0],
   deadline_updates |-> 0,
   blacklist |-> <<>>, penalties |-> 0, informs |-> <<>>, aborts |-> <<>>,
   http_code |-> 0]

\* The threads' entries and the shared table before the first call
NoCalls ==
  /\ pc = [w \in Workers |-> "idle"]
  /\ curl = [w \in Workers |-> [exists |-> FALSE, primary_ip |-> {""}, resolve |-> <<>>, dns |-> {}]]
  /\ deadline_ms = [w \in Workers |-> 0]
  /\ remote_ip = [w \in Workers |-> ""]
  /\ host_resolve = [w \in Workers |-> <<>>]
  /\ stat_table = NoRows
  /\ lock = 0
  /\ clock = 1
  /\ attached \in Constructed
  /\ loc = [w \in Workers |-> NoLocals]
  /\ obs = [w \in Workers |-> NoObs]

----------------------------------------------------------------------------
(* Diameter::Stack: the peer list and the freeDiameter connection hook *)

\* Bound on the number of Diameter::Peer objects the application owns
NumPeers == 3
Peers == 1..NumPeers

\* Peer::host(): two peer objects may name the same host
host(p) == IF p % 2 = 1 THEN "hostA" ELSE "hostB"

\* peer->info.pi_diamid of the peer_hdr a callback is given; "hostC" is a
\* host the stack has no peer for, NULL is no peer_hdr at all
HookHosts == {"hostA", "hostB", "hostC"}
HookPeers == HookHosts \cup {"NULL"}

\* enum fd_hook_type: the two types the stack registers for and one other
HookTypes == {"HOOK_PEER_CONNECT_SUCCESS", "HOOK_PEER_CONNECT_FAILED",
              "HOOK_MESSAGE_RECEIVED"}

\* The stack after its constructor: no peers, the lock free, no callback
\* running or returned
NoStack ==
  [_peers |-> <<>>, connected |-> {}, _peers_lock |-> FALSE,
   pc |-> "idle", type |-> "none", peer |-> "NULL", ii |-> 0,
   erased |-> FALSE, before |-> <<>>, events |-> <<>>, log |-> {}]

\* Variant of erase that removes the last element
erase_PopBack(peers, ii) == SubSeq(peers, 1, Len(peers) - 1)

\* std::vector::erase(ii)
erase(peers, ii) ==
  SubSeq(peers, 1, ii - 1) \o SubSeq(peers, ii + 1, Len(peers))

\* What the callback does to a peer object or to _peers, in order
Event(fn, p) == [fn |-> fn, peer |-> p]

\* No send with a timeout yet
NoSend ==
  [sent |-> FALSE, now |-> [tv_sec |-> 0, tv_nsec |-> 0], timeout_ms |-> 0,
   tv_sec |-> 0, tv_nsec |-> 0]

\* After the constructor: here a load monitor, when one is attached, has the
\* default target latency
Init ==
  /\ NoCalls
  /\ target_latency_us = IF attached.load_monitor THEN DEFAULT_LATENCY_US ELSE 0
  /\ timeout_ms \in calc_req_timeout_from_latency(
                      LatencyUsed(attached.load_monitor, target_latency_us))
  /\ assert_user = FALSE
  /\ request = NoRequest
  /\ server = ServerFields(ConstructedServer)
  /\ view = [w \in Workers |-> NoView]
  /\ sampled = [w \in Workers |-> NoSample]
  /\ response = NoResponse
  /\ http_request = NoHttpRequest
  /\ handle = NoHandle
  /\ stack = NoStack
  /\ timeout_ts = NoSend

----------------------------------------------------------------------------
(* send_request, one step per loop iteration *)

\* Variant of RemoteIpValue that keeps the IP only after a response below 400
RemoteIpValue_OnSuccessOnly(l) ==
  IF IsSuccess(l.rc, l.http_rc) THEN l.remote_ip ELSE ""

\* The value send_request hands to set_remote_ip after the loop
RemoteIpValue(l) == IF l.rc = "CURLE_OK" THEN l.remote_ip ELSE ""

\* Variant of Inform that looks at the 503 count only
Inform_IgnoresRc(l) ==
  IF l.num_http_503_responses >= 2 THEN "failure" ELSE "success"

\* Variant of Inform that looks at the transfer's result only
Inform_Ignores503(l) == IF l.rc = "CURLE_OK" THEN "success" ELSE "failure"

\* The communication monitor's verdict for a finished call
Inform(l) ==
  IF l.rc = "CURLE_OK"
  THEN IF l.num_http_503_responses >= 2 THEN "failure" ELSE "success"
  ELSE "failure"

\* PoolEntry::update_snmp_ip_counts run to completion by one thread
update_snmp_ip_counts(table, old, value) ==
  LET lowered == IF old # ""
                 THEN IF DecrementRow(table, old)[old] = 0
                      THEN TableRemove(DecrementRow(table, old), old)
                      ELSE DecrementRow(table, old)
                 ELSE table
  IN IF value # "" THEN IncrementRow(lowered, value) ELSE lowered

\* PoolEntry::set_remote_ip run to completion by one thread: the table after it
set_remote_ip(table, old, value, has_table) ==
  IF value = old THEN table
  ELSE IF has_table THEN update_snmp_ip_counts(table, old, value) ELSE table

\* send_request after the loop: the locals when it returns
FinishLocals(l) ==
  [l EXCEPT !.value = RemoteIpValue(l),
            !.http_code = curl_code_to_http_code(l.rc, l.http_rc)]

\* send_request after the loop: the penalty to the load monitor, the verdict
\* to the communication monitor and the HTTP code returned
FinishObs(l, o) ==
  [o EXCEPT
     !.penalties = IF ShouldPenalise(l, attached.load_monitor) THEN @ + 1 ELSE @,
     !.informs = IF attached.comm_monitor THEN Append(@, Inform(l)) ELSE @,
     !.http_code = curl_code_to_http_code(l.rc, l.http_rc),
     !.returned = TRUE]

\* send_request after the loop: the counter table after its set_remote_ip
FinishTable(w, l) ==
  set_remote_ip(stat_table, remote_ip[w], RemoteIpValue(l), attached.stat_table)

\* send_request up to the attempt loop: the handle and its PoolEntry are
\* created on first use, the clock is read, the host is resolved and the
\* target list is assembled. With no target the loop body never runs and
\* the call goes straight through to its return
SendRequest(w) ==
  /\ pc[w] = "idle"
  /\ \E now \in clock..MaxNow, resolved \in ResolverResults,
        primary_ip \in curl[w].primary_ip :
     \E recycle \in {is_connection_expired(now, deadline_ms[w])} :
     \E address \in (IF recycle THEN {NoAddress} ELSE Indeterminate) :
     \E targets \in {CloneSingleTarget(StickyFirst(resolved, primary_ip, address,
                                                   recycle))} :
     \E l \in {[NoLocals EXCEPT !.now_ms = now,
                                !.recycle_conn = recycle,
                                !.targets = targets]} :
     \E o \in {[NoObs EXCEPT !.resolved = resolved,
                             !.primary_ip = primary_ip,
                             !.remote_ip = remote_ip[w],
                             !.deadline_ms = deadline_ms[w]]} :
       /\ clock' = now
       /\ curl' = [curl EXCEPT ![w].exists = TRUE,
                               ![w].primary_ip = {primary_ip}]
       /\ IF targets = <<>>
          THEN /\ loc' = [loc EXCEPT ![w] = FinishLocals(l)]
               /\ obs' = [obs EXCEPT ![w] = FinishObs(l, o)]
               /\ stat_table' = FinishTable(w, l)
               /\ remote_ip' = [remote_ip EXCEPT ![w] = RemoteIpValue(l)]
               /\ pc' = [pc EXCEPT ![w] = "returned"]
          ELSE /\ loc' = [loc EXCEPT ![w] = l]
               /\ obs' = [obs EXCEPT ![w] = o]
               /\ pc' = [pc EXCEPT ![w] = "loop"]
               /\ UNCHANGED <<stat_table, remote_ip>>
  /\ UNCHANGED <<deadline_ms, host_resolve, lock, attached, executor_vars>>

\* send_request: the deadline is updated after a success on a forced new
\* connection
\* Variant of FreshConnect that forces a new connection on the first pass only
FreshConnect_FirstPassOnly(recycle_conn, i) == recycle_conn /\ i = 1

\* send_request: CURLOPT_FRESH_CONNECT as set at the top of the pass for
\* position i
FreshConnect(recycle_conn, i) == recycle_conn

\* Variant of NextTarget that stays on the target just tried
NextTarget_Same(i) == i

\* send_request: ++i, the loop moves on to the next position of the list
NextTarget(i) == i + 1

UpdatesDeadline_OnEverySuccess(success, recycle_conn) == success

UpdatesDeadline(success, recycle_conn) == success /\ recycle_conn

AbortReason_AlwaysTemporary(l) == "Temporary"

\* send_request: the reason given to sas_log_http_abort
AbortReason(l) == IF l.fatal_http_error THEN "Permanent" ELSE "Temporary"

\* Variant of DocAfterPerform without the doc.clear()
DocAfterPerform_NoClear(doc, n, r) ==
  IF r.rc = "CURLE_OK" THEN Append(doc, n) ELSE doc

\* Variant of DocAfterPerform with the doc.clear() before the loop, not in it
DocAfterPerform_ClearOnce(doc, n, r) ==
  IF r.rc = "CURLE_OK" THEN Append(IF n = 1 THEN <<>> ELSE doc, n)
  ELSE IF n = 1 THEN <<>> ELSE doc

\* doc.clear() and curl_easy_perform: the document is emptied, then
\* string_store appends what the n-th transfer receives (a response body,
\* when the transfer got a response)
DocAfterPerform(doc, n, r) ==
  IF r.rc = "CURLE_OK" THEN Append(<<>>, n) ELSE <<>>

\* The note left in _host_resolve: remove host:port from curl's DNS cache
RemoveDirective(port) == [op |-> "remove", port |-> port]

\* The entry added each time round the loop: host:port:remote_ip
AddDirective(port, ip) == [op |-> "add", port |-> port, ip |-> ip]

\* Variant of PendingAfter that leaves no note
PendingAfter_NoNote(port) == <<>>

\* What a pass of the loop leaves in _host_resolve after the transfer
PendingAfter(port) == <<RemoveDirective(port)>>

\* The list a pass of the loop gives as CURLOPT_RESOLVE: the note retrieved
\* from the entry, then the new entry
ResolveList(pending, t) ==
  Append(pending, AddDirective(t.port, inet_ntop(t.address)))

\* curl_easy_perform loads the CURLOPT_RESOLVE list into the DNS cache of the
\* handle, in order: "-host:port" removes the entry of host:port, and
\* "host:port:ip" adds one unless host:port has an entry already
RECURSIVE LoadHostPairs(_, _)
LoadHostPairs(dns, list) ==
  IF list = <<>> THEN dns
  ELSE LET d == Head(list)
       IN LoadHostPairs(
            IF d.op = "remove" THEN {e \in dns : e.port # d.port}
            ELSE IF \E e \in dns : e.port = d.port THEN dns
            ELSE dns \cup {[port |-> d.port, ip |-> d.ip]},
            Tail(list))

\* The samples _rand may give when update_deadline is called
Intervals(called) == IF called THEN 0..MaxInterval ELSE {0}

\* One iteration of the loop over the targets: configure the transport,
\* perform, classify the result, feed back, and break or go on. The
\* iteration that leaves the loop runs on through the rest of send_request
Attempt(w) ==
  /\ pc[w] = "loop"
  /\ \E r \in PerformResults :
     \E success \in {IsSuccess(r.rc, r.http_rc)} :
     \E interval \in Intervals(UpdatesDeadline(success, loc[w].recycle_conn)) :
     \E counted \in {IF success THEN loc[w]
                     ELSE CountFailure(loc[w], r.rc, r.http_rc)} :
     \E stop \in {success \/ ShouldStop(counted)} :
     \E done \in {stop \/ NextTarget(loc[w].i) > Len(loc[w].targets)} :
     \E l2 \in {[counted EXCEPT
                   !.rc = r.rc,
                   !.http_rc = r.http_rc,
                   !.remote_ip = inet_ntop(loc[w].targets[loc[w].i].address),
                   !.doc = DocAfterPerform(@, Len(obs[w].attempts) + 1, r),
                   !.i = IF stop THEN @ ELSE NextTarget(@)]} :
     \E o2 \in {[obs[w] EXCEPT
                   !.attempts =
                      Append(@, [target |-> loc[w].targets[loc[w].i],
                                 fresh |-> FreshConnect(loc[w].recycle_conn, loc[w].i),
                                 outcome |-> Classify(r.rc, r.http_rc)]),
                   !.perform = r,
                   !.deadline_updates =
                      IF UpdatesDeadline(success, loc[w].recycle_conn)
                      THEN @ + 1 ELSE @,
                   !.blacklist =
                      IF ~success /\ ShouldBlacklist(loc[w].recycle_conn, r.rc, r.http_rc)
                      THEN Append(@, [target |-> loc[w].targets[loc[w].i],
                                      attempt |-> Len(obs[w].attempts) + 1])
                      ELSE @,
                   !.aborts =
                      IF ~success /\ stop
                      THEN Append(@, AbortReason(counted))
                      ELSE @]} :
       /\ curl' = [curl EXCEPT
                     ![w].primary_ip = PrimaryIpAfter(loc[w].targets[loc[w].i], r),
                     ![w].resolve =
                        ResolveList(host_resolve[w], loc[w].targets[loc[w].i]),
                     ![w].dns =
                        LoadHostPairs(@, ResolveList(host_resolve[w],
                                                     loc[w].targets[loc[w].i]))]
       /\ host_resolve' =
            [host_resolve EXCEPT
               ![w] = PendingAfter(loc[w].targets[loc[w].i].port)]
       /\ deadline_ms' =
            IF UpdatesDeadline(success, loc[w].recycle_conn)
            THEN [deadline_ms EXCEPT ![w] = update_deadline(@, loc[w].now_ms, interval)]
            ELSE deadline_ms
       /\ IF done
          THEN /\ loc' = [loc EXCEPT ![w] = FinishLocals(l2)]
               /\ obs' = [obs EXCEPT ![w] = FinishObs(l2, o2)]
               /\ stat_table' = FinishTable(w, l2)
               /\ remote_ip' = [remote_ip EXCEPT ![w] = RemoteIpValue(l2)]
               /\ pc' = [pc EXCEPT ![w] = "returned"]
          ELSE /\ loc' = [loc EXCEPT ![w] = l2]
               /\ obs' = [obs EXCEPT ![w] = o2]
               /\ pc' = [pc EXCEPT ![w] = "loop"]
               /\ UNCHANGED <<stat_table, remote_ip>>
  /\ UNCHANGED <<lock, clock, attached, executor_vars>>

\* The caller has taken the response; the locals of the call are gone
Return(w) ==
  /\ pc[w] = "returned"
  /\ loc' = [loc EXCEPT ![w] = NoLocals]
  /\ obs' = [obs EXCEPT ![w] = NoObs]
  /\ pc' = [pc EXCEPT ![w] = "idle"]
  /\ UNCHANGED <<curl, deadline_ms, remote_ip, host_resolve, stat_table, lock,
                 clock, attached, executor_vars>>

----------------------------------------------------------------------------
(* Several threads: set_remote_ip and update_snmp_ip_counts, one step per  *)
(* access to the entry, the mutex or the table                            *)

\* send_request as far as its call of set_remote_ip, summarised by what the
\* loop leaves: rc and the last target's printable IP (NULL and
\* CURLE_COULDNT_RESOLVE_HOST when nothing was attempted)
CallSetRemoteIp(w) ==
  /\ pc[w] = "idle"
  /\ \E l \in {[NoLocals EXCEPT !.rc = r.rc, !.http_rc = r.http_rc,
                                !.remote_ip = inet_ntop(a)] :
                 r \in {x \in PerformResults :
                          x.rc \in {"CURLE_OK", "CURLE_COULDNT_CONNECT"}
                          /\ x.http_rc \in {0, 200}},
                 a \in Ips}
               \cup {NoLocals} :
       loc' = [loc EXCEPT ![w] = [l EXCEPT !.value = RemoteIpValue(l),
                                           !.ret = "idle"]]
  /\ curl' = [curl EXCEPT ![w].exists = TRUE]
  /\ pc' = [pc EXCEPT ![w] = "set_remote_ip"]
  /\ UNCHANGED <<deadline_ms, remote_ip, host_resolve, stat_table, lock,
                 clock, attached, executor_vars, obs>>

\* Variant of SetRemoteIp that does not compare the value with the current one
SetRemoteIp_NoCompare(w) ==
  /\ pc[w] = "set_remote_ip"
  /\ pc' = [pc EXCEPT ![w] = IF attached.stat_table THEN "lock" ELSE "store"]
  /\ UNCHANGED <<curl, deadline_ms, remote_ip, host_resolve, stat_table, lock,
                 clock, attached, executor_vars, loc, obs>>

\* set_remote_ip: nothing to do when the value is the current one; the
\* counters are updated only when a table was given
SetRemoteIp(w) ==
  /\ pc[w] = "set_remote_ip"
  /\ pc' = [pc EXCEPT ![w] =
              IF loc[w].value = remote_ip[w] THEN loc[w].ret
              ELSE IF attached.stat_table THEN "lock" ELSE "store"]
  /\ UNCHANGED <<curl, deadline_ms, remote_ip, host_resolve, stat_table, lock,
                 clock, attached, executor_vars, loc, obs>>

\* Variant of Lock that does not wait for the mutex
Lock_NoWait(w) ==
  /\ pc[w] = "lock"
  /\ lock' = w
  /\ pc' = [pc EXCEPT ![w] = "decrement"]
  /\ UNCHANGED <<curl, deadline_ms, remote_ip, host_resolve, stat_table,
                 clock, attached, executor_vars, loc, obs>>

\* pthread_mutex_lock(&_parent->_lock)
Lock(w) ==
  /\ pc[w] = "lock"
  /\ lock = 0
  /\ lock' = w
  /\ pc' = [pc EXCEPT ![w] = "decrement"]
  /\ UNCHANGED <<curl, deadline_ms, remote_ip, host_resolve, stat_table,
                 clock, attached, executor_vars, loc, obs>>

\* Variant of Decrement that never removes the row
Decrement_NoRemove(w) ==
  /\ pc[w] = "decrement"
  /\ stat_table' = IF remote_ip[w] # ""
                   THEN DecrementRow(stat_table, remote_ip[w])
                   ELSE stat_table
  /\ pc' = [pc EXCEPT ![w] = "increment"]
  /\ UNCHANGED <<curl, deadline_ms, remote_ip, host_resolve, lock,
                 clock, attached, executor_vars, loc, obs>>

\* get(_remote_ip)->decrement() when the old value is not empty
Decrement(w) ==
  /\ pc[w] = "decrement"
  /\ IF remote_ip[w] # ""
     THEN /\ stat_table' = DecrementRow(stat_table, remote_ip[w])
          /\ pc' = [pc EXCEPT ![w] =
                      IF DecrementRow(stat_table, remote_ip[w])[remote_ip[w]] = 0
                      THEN "remove" ELSE "increment"]
     ELSE /\ stat_table' = stat_table
          /\ pc' = [pc EXCEPT ![w] = "increment"]
  /\ UNCHANGED <<curl, deadline_ms, remote_ip, host_resolve, lock,
                 clock, attached, executor_vars, loc, obs>>

\* _stat_table->remove(_remote_ip) when the count reached zero
Remove(w) ==
  /\ pc[w] = "remove"
  /\ stat_table' = TableRemove(stat_table, remote_ip[w])
  /\ pc' = [pc EXCEPT ![w] = "increment"]
  /\ UNCHANGED <<curl, deadline_ms, remote_ip, host_resolve, lock,
                 clock, attached, executor_vars, loc, obs>>

\* get(value)->increment() when the new value is not empty
Increment(w) ==
  /\ pc[w] = "increment"
  /\ stat_table' =
       IF loc[w].value # "" THEN IncrementRow(stat_table, loc[w].value)
       ELSE stat_table
  /\ pc' = [pc EXCEPT ![w] = "unlock"]
  /\ UNCHANGED <<curl, deadline_ms, remote_ip, host_resolve, lock,
                 clock, attached, executor_vars, loc, obs>>

\* Variant of Unlock that leaves the mutex held
Unlock_StillHeld(w) ==
  /\ pc[w] = "unlock"
  /\ pc' = [pc EXCEPT ![w] = "store"]
  /\ UNCHANGED <<curl, deadline_ms, remote_ip, host_resolve, stat_table, lock,
                 clock, attached, executor_vars, loc, obs>>

\* pthread_mutex_unlock(&_parent->_lock)
Unlock(w) ==
  /\ pc[w] = "unlock"
  /\ lock' = 0
  /\ pc' = [pc EXCEPT ![w] = "store"]
  /\ UNCHANGED <<curl, deadline_ms, remote_ip, host_resolve, stat_table,
                 clock, attached, executor_vars, loc, obs>>

\* _remote_ip = value
Store(w) ==
  /\ pc[w] = "store"
  /\ remote_ip' = [remote_ip EXCEPT ![w] = loc[w].value]
  /\ pc' = [pc EXCEPT ![w] = loc[w].ret]
  /\ UNCHANGED <<curl, deadline_ms, host_resolve, stat_table, lock,
                 clock, attached, executor_vars, loc, obs>>

\* Variant of CleanupCurl that deletes the entry without set_remote_ip("")
CleanupCurl_NoSetRemoteIp(w) ==
  /\ pc[w] = "idle"
  /\ curl[w].exists
  /\ loc' = [loc EXCEPT ![w] = [NoLocals EXCEPT !.value = "", !.ret = "delete"]]
  /\ pc' = [pc EXCEPT ![w] = "delete"]
  /\ UNCHANGED <<curl, deadline_ms, remote_ip, host_resolve, stat_table, lock,
                 clock, attached, executor_vars, obs>>

\* cleanup_curl: the connection has closed
CleanupCurl(w) ==
  /\ pc[w] = "idle"
  /\ curl[w].exists
  /\ loc' = [loc EXCEPT ![w] = [NoLocals EXCEPT !.value = "", !.ret = "delete"]]
  /\ pc' = [pc EXCEPT ![w] = "set_remote_ip"]
  /\ UNCHANGED <<curl, deadline_ms, remote_ip, host_resolve, stat_table, lock,
                 clock, attached, executor_vars, obs>>

\* delete entry; curl_easy_cleanup(curl). The slot is then free for the
\* next thread, which gets a new handle and a new PoolEntry on first use
DeleteEntry(w) ==
  /\ pc[w] = "delete"
  /\ curl' = [curl EXCEPT ![w] = [exists |-> FALSE, primary_ip |-> {""}, resolve |-> <<>>, dns |-> {}]]
  /\ deadline_ms' = [deadline_ms EXCEPT ![w] = 0]
  /\ host_resolve' = [host_resolve EXCEPT ![w] = <<>>]
  /\ loc' = [loc EXCEPT ![w] = NoLocals]
  /\ pc' = [pc EXCEPT ![w] = "idle"]
  /\ UNCHANGED <<remote_ip, stat_table, lock, clock, attached, executor_vars, obs>>

----------------------------------------------------------------------------
(* Specifications *)

Next ==
  \E w \in SeqWorkers :
    \/ SendRequest(w)
    \/ Attempt(w)
    \/ Return(w)

Spec == Init /\ [][Next]_vars

NextConc ==
  \E w \in Workers :
    \/ CallSetRemoteIp(w)
    \/ SetRemoteIp(w)
    \/ Lock(w)
    \/ Decrement(w)
    \/ Remove(w)
    \/ Increment(w)
    \/ Unlock(w)
    \/ Store(w)
    \/ CleanupCurl(w)
    \/ DeleteEntry(w)

InitConc == Init /\ attached.stat_table

SpecConc == InitConc /\ [][NextConc]_vars

\* The steps of thread w inside set_remote_ip and update_snmp_ip_counts
StepOf(w) ==
  \/ SetRemoteIp(w)
  \/ Decrement(w)
  \/ Remove(w)
  \/ Increment(w)
  \/ Unlock(w)
  \/ Store(w)

\* The threads' calls when every server has one and the same address: the
\* steps between lock and unlock do not depend on which address it is
NextOneAddress ==
  /\ NextConc
  /\ \A w \in Workers : loc'[w].value \in {"", inet_ntop(1)}

\* Fair scheduling: a thread that can take a step takes one, and a thread
\* waiting for the mutex gets it if it is free again and again
SpecConcFair ==
  /\ InitConc
  /\ [][NextOneAddress]_vars
  /\ \A w \in Workers : WF_vars(StepOf(w)) /\ SF_vars(Lock(w))

\* HttpConnection::HttpConnection: the response timeout is computed from the
\* load monitor's target latency, or from the default without a monitor
Construct ==
  /\ timeout_ms = 0
  /\ timeout_ms' \in calc_req_timeout_from_latency(
                       LatencyUsed(attached.load_monitor, target_latency_us))
  /\ UNCHANGED <<pc, curl, deadline_ms, remote_ip, host_resolve, stat_table,
                 lock, clock, attached, loc, obs, target_latency_us,
                 assert_user, request, server, view,
                 sampled,
                 response,
                 http_request,
                 handle,
                 stack,
                 timeout_ts>>

\* Before the constructor, for every target latency a load monitor may have
InitTimeout ==
  /\ NoCalls
  /\ target_latency_us \in IF attached.load_monitor THEN Latencies ELSE {0}
  /\ timeout_ms = 0
  /\ assert_user = FALSE
  /\ request = NoRequest
  /\ server = ServerFields(ConstructedServer)
  /\ view = [w \in Workers |-> NoView]
  /\ sampled = [w \in Workers |-> NoSample]
  /\ response = NoResponse
  /\ http_request = NoHttpRequest
  /\ handle = NoHandle
  /\ stack = NoStack
  /\ timeout_ts = NoSend

NextTimeout == Construct

SpecTimeout == InitTimeout /\ [][NextTimeout]_vars

\* The variables the building of a request's header list leaves alone
entry_vars == <<pc, curl, deadline_ms, remote_ip, host_resolve, stat_table,
                lock, clock, attached, loc, obs>>

\* send_get: no body; the caller's extra request headers are passed on
SendGet ==
  /\ \E username \in Usernames, headers_to_add \in ExtrasLists :
     \E req \in {Call("GET", "", username, headers_to_add, assert_user)} :
       /\ request' = req
       /\ handle' = HandleAfter(handle, req)
  /\ UNCHANGED <<entry_vars, target_latency_us, timeout_ms, assert_user,
                 server, view,
                 sampled,
                 response,
                 http_request, stack, timeout_ts>>

\* send_put: the caller's extra request headers are passed on, the username
\* is not
SendPut ==
  /\ \E body \in Bodies, extra_req_headers \in ExtrasLists, username \in Usernames :
     \E req \in {[Call("PUT", body, "", extra_req_headers, assert_user)
                   EXCEPT !.caller_username = username]} :
       /\ request' = req
       /\ handle' = HandleAfter(handle, req)
  /\ UNCHANGED <<entry_vars, target_latency_us, timeout_ms, assert_user,
                 server, view,
                 sampled,
                 response,
                 http_request, stack, timeout_ts>>

\* send_post: no extra request headers
SendPost ==
  /\ \E body \in Bodies, username \in Usernames :
     \E req \in {Call("POST", body, username, <<>>, assert_user)} :
       /\ request' = req
       /\ handle' = HandleAfter(handle, req)
  /\ UNCHANGED <<entry_vars, target_latency_us, timeout_ms, assert_user,
                 server, view,
                 sampled,
                 response,
                 http_request, stack, timeout_ts>>

\* send_delete: no extra request headers; the list it sets itself, one empty
\* Expect header, is replaced by the one send_request sets
SendDelete ==
  /\ \E body \in Bodies, username \in Usernames :
     \E req \in {Call("DELETE", body, username, <<>>, assert_user)} :
       /\ request' = req
       /\ handle' = HandleAfter(handle, req)
  /\ UNCHANGED <<entry_vars, target_latency_us, timeout_ms, assert_user,
                 server, view,
                 sampled,
                 response,
                 http_request, stack, timeout_ts>>

\* After the constructor, with or without the identity assertion
InitHeaders ==
  /\ NoCalls
  /\ target_latency_us = IF attached.load_monitor THEN DEFAULT_LATENCY_US ELSE 0
  /\ timeout_ms \in calc_req_timeout_from_latency(
                      LatencyUsed(attached.load_monitor, target_latency_us))
  /\ assert_user \in BOOLEAN
  /\ request = NoRequest
  /\ server = ServerFields(ConstructedServer)
  /\ view = [w \in Workers |-> NoView]
  /\ sampled = [w \in Workers |-> NoSample]
  /\ response = NoResponse
  /\ http_request = NoHttpRequest
  /\ handle = NoHandle
  /\ stack = NoStack
  /\ timeout_ts = NoSend

NextHeaders == SendGet \/ SendPut \/ SendPost \/ SendDelete

SpecHeaders == InitHeaders /\ [][NextHeaders]_vars

\* The variables the calls' use of _server, _host and _port leaves alone
call_vars == <<curl, deadline_ms, remote_ip, host_resolve, stat_table, lock,
               clock, attached, loc, obs, target_latency_us, timeout_ms,
               assert_user, request, sampled,
                 response,
                 http_request,
                 handle,
                 stack,
                 timeout_ts>>

\* The threads that are inside the assignment to the field f in change_server
Assigning(f) ==
  {v \in Workers : pc[v] = (CASE f = "server" -> "change_server"
                              [] f = "host" -> "set_host"
                              [] f = "port" -> "set_port")}

\* What thread w may read from the field f: its value, or, while another
\* thread assigns to it without any lock, the old value, the new one or, for
\* the two strings, neither
RacyRead(w, f) ==
  {server[f]}
    \cup {ServerFields(view[v].override)[f] : v \in Assigning(f) \ {w}}
    \cup (IF Assigning(f) \ {w} # {} /\ f # "port" THEN {Torn[f]} ELSE {})

\* send_get(path, response, headers, override_server, trail) and
\* send_delete(path, trail, body, override_server): enter change_server
CallOverride(w) ==
  /\ pc[w] = "idle"
  /\ \E override_server \in OverrideServers :
       view' = [view EXCEPT ![w] = [NoView EXCEPT !.override = override_server]]
  /\ pc' = [pc EXCEPT ![w] = "change_server"]
  /\ UNCHANGED <<call_vars, server>>

\* change_server: _server = override_server
AssignServer(w) ==
  /\ pc[w] = "change_server"
  /\ server' = [server EXCEPT !.server = view[w].override]
  /\ pc' = [pc EXCEPT ![w] = "set_host"]
  /\ UNCHANGED <<call_vars, view,
                 sampled,
                 response,
                 http_request,
                 handle,
                 stack,
                 timeout_ts>>

\* change_server: _host = host_from_server(override_server)
AssignHost(w) ==
  /\ pc[w] = "set_host"
  /\ server' = [server EXCEPT !.host = host_from_server(view[w].override)]
  /\ pc' = [pc EXCEPT ![w] = "set_port"]
  /\ UNCHANGED <<call_vars, view,
                 sampled,
                 response,
                 http_request,
                 handle,
                 stack,
                 timeout_ts>>

\* change_server: _port = port_from_server(override_server); the operation
\* goes on into send_request
AssignPort(w) ==
  /\ pc[w] = "set_port"
  /\ server' = [server EXCEPT !.port = port_from_server(view[w].override)]
  /\ pc' = [pc EXCEPT ![w] = "url"]
  /\ UNCHANGED <<call_vars, view,
                 sampled,
                 response,
                 http_request,
                 handle,
                 stack,
                 timeout_ts>>

\* Any other public send operation: straight into send_request
CallPlain(w) ==
  /\ pc[w] = "idle"
  /\ view' = [view EXCEPT ![w] = NoView]
  /\ pc' = [pc EXCEPT ![w] = "url"]
  /\ UNCHANGED <<call_vars, server>>

\* send_request: url = _scheme + "://" + _server + path
ReadUrl(w) ==
  /\ pc[w] = "url"
  /\ \E s \in RacyRead(w, "server") :
       view' = [view EXCEPT ![w].url = s]
  /\ pc' = [pc EXCEPT ![w] = "resolve"]
  /\ UNCHANGED <<call_vars, server>>

\* send_request: _resolver->resolve(_host, _port, ...)
Resolve(w) ==
  /\ pc[w] = "resolve"
  /\ \E h \in RacyRead(w, "host"), p \in RacyRead(w, "port") :
       view' = [view EXCEPT ![w].host = h, ![w].port = p]
  /\ pc' = [pc EXCEPT ![w] = "sent"]
  /\ UNCHANGED <<call_vars, server>>

\* send_request returns
Sent(w) ==
  /\ pc[w] = "sent"
  /\ pc' = [pc EXCEPT ![w] = "idle"]
  /\ UNCHANGED <<call_vars, server, view,
                 sampled,
                 response,
                 http_request,
                 handle,
                 stack,
                 timeout_ts>>

NextServer ==
  \E w \in Workers :
    \/ CallOverride(w)
    \/ AssignServer(w)
    \/ AssignHost(w)
    \/ AssignPort(w)
    \/ CallPlain(w)
    \/ ReadUrl(w)
    \/ Resolve(w)
    \/ Sent(w)

SpecServer == Init /\ [][NextServer]_vars

\* PoolEntry::update_deadline(now_ms) on thread w's entry: one sample of
\* _rand, then the new deadline
UpdateDeadline(w) ==
  /\ sampled[w].updates < MaxUpdates
  /\ \E interval_ms \in 0..MaxInterval :
       /\ deadline_ms' =
            [deadline_ms EXCEPT ![w] = update_deadline(@, clock, interval_ms)]
       /\ sampled' =
            [sampled EXCEPT ![w] = [draws |-> @.draws + 1,
                                    updates |-> @.updates + 1,
                                    before |-> deadline_ms[w],
                                    now |-> clock,
                                    interval |-> interval_ms]]
  /\ UNCHANGED <<pc, curl, remote_ip, host_resolve, stat_table, lock, clock,
                 attached, loc, obs, target_latency_us, timeout_ms,
                 assert_user, request, server, view, response,
                 http_request,
                 handle,
                 stack,
                 timeout_ts>>

\* CLOCK_MONOTONIC moves on
Tick ==
  /\ clock < MaxNow + MaxDeadline
  /\ clock' = clock + 1
  /\ UNCHANGED <<pc, curl, deadline_ms, remote_ip, host_resolve, stat_table,
                 lock, attached, loc, obs, executor_vars>>

\* An entry with any deadline, at any time
InitDeadline ==
  /\ pc = [w \in Workers |-> "idle"]
  /\ curl = [w \in Workers |-> [exists |-> TRUE, primary_ip |-> {""}, resolve |-> <<>>, dns |-> {}]]
  /\ deadline_ms \in [Workers -> 0..MaxDeadline]
  /\ \A w \in Workers \ SeqWorkers : deadline_ms[w] = 0
  /\ remote_ip = [w \in Workers |-> ""]
  /\ host_resolve = [w \in Workers |-> <<>>]
  /\ stat_table = NoRows
  /\ lock = 0
  /\ clock \in 0..MaxNow
  /\ attached \in Constructed
  /\ loc = [w \in Workers |-> NoLocals]
  /\ obs = [w \in Workers |-> NoObs]
  /\ target_latency_us = IF attached.load_monitor THEN DEFAULT_LATENCY_US ELSE 0
  /\ timeout_ms \in calc_req_timeout_from_latency(
                      LatencyUsed(attached.load_monitor, target_latency_us))
  /\ assert_user = FALSE
  /\ request = NoRequest
  /\ server = ServerFields(ConstructedServer)
  /\ view = [w \in Workers |-> NoView]
  /\ sampled = [w \in Workers |-> NoSample]
  /\ response = NoResponse
  /\ http_request = NoHttpRequest
  /\ handle = NoHandle
  /\ stack = NoStack
  /\ timeout_ts = NoSend

NextDeadline == Tick \/ \E w \in SeqWorkers : UpdateDeadline(w)

SpecDeadline == InitDeadline /\ [][NextDeadline]_vars

\* The variables the reception of response headers leaves alone
receive_vars == <<pc, curl, deadline_ms, remote_ip, host_resolve, stat_table,
                  lock, clock, attached, loc, obs, target_latency_us,
                  timeout_ms, assert_user, request, server, view, sampled,
                  http_request,
                 handle,
                 stack,
                 timeout_ts>>

\* A public send operation up to its call of send_request: header_function
\* tells whether it set CURLOPT_HEADERFUNCTION and CURLOPT_WRITEHEADER to
\* write_headers and to the caller's (empty) map
StartCall(method, header_function) ==
  /\ response.method = "none" \/ response.returned
  /\ response' = [NoResponse EXCEPT !.method = method,
                                    !.header_function = header_function]
  /\ UNCHANGED receive_vars

\* send_get sets CURLOPT_HTTPGET only
StartGet == StartCall("GET", FALSE)

\* send_put sets the header callback and its data
StartPut == StartCall("PUT", TRUE)

\* send_post sets the header callback and its data
StartPost == StartCall("POST", TRUE)

\* send_delete sets CURLOPT_HTTPHEADER and CURLOPT_CUSTOMREQUEST only
StartDelete == StartCall("DELETE", FALSE)

\* One pass of send_request's loop in which the server answers: the transfer
\* receives the header lines of the answer; after a 503 the loop goes on to
\* the next target unless this was the second 503, after any other answer it
\* stops and the operation returns
PerformAttempt ==
  /\ response.method # "none"
  /\ ~response.returned
  /\ \E lines \in ResponseHeaderLines, http_rc \in {200, HTTP_NOT_FOUND, 503} :
       response' =
         [response EXCEPT
            !.headers = HeadersAfterPerform(response.header_function, lines, @),
            !.lines = lines,
            !.consumed = ConsumedAfterPerform(response.header_function, lines),
            !.attempts = @ + 1,
            !.returned = (http_rc # 503) \/ (response.attempts + 1 >= 2)]
  /\ UNCHANGED receive_vars

NextResponse ==
  \/ StartGet
  \/ StartPut
  \/ StartPost
  \/ StartDelete
  \/ PerformAttempt

SpecResponse == Init /\ [][NextResponse]_vars

\* The variables the building and sending of an HttpRequest leaves alone
http_request_vars == <<pc, curl, deadline_ms, remote_ip, host_resolve,
                       stat_table, lock, clock, attached, loc, obs,
                       target_latency_us, timeout_ms, assert_user, request,
                       server, view, sampled, response, handle,
                 stack,
                 timeout_ts>>

\* HttpRequest::HttpRequest
NewHttpRequest ==
  /\ ~http_request.built \/ http_request.sent
  /\ http_request' = [NoHttpRequest EXCEPT !.built = TRUE]
  /\ UNCHANGED http_request_vars

\* HttpRequest::set_allowed_host_state overwrites any previous setting
set_allowed_host_state ==
  /\ http_request.built
  /\ ~http_request.sent
  /\ \E allowed_host_state \in HostStateMasks :
       http_request' =
         [http_request EXCEPT !.allowed_host_state = allowed_host_state,
                              !.overwritten = TRUE]
  /\ UNCHANGED http_request_vars

\* Variant of ResolveMask that resolves every request with all lists
ResolveMask_AllLists(req) == ALL_LISTS

\* The mask HttpRequest::send forwards to the resolve call of its request
ResolveMask(req) == req.allowed_host_state

\* The sequences of distinct hosts whose state the mask allows
Allowed(host_state, mask) ==
  { t \in UNION {[1..n -> Ips] : n \in 0..NumIps} :
      /\ \A j, k \in 1..Len(t) : j # k => t[j] # t[k]
      /\ \A k \in 1..Len(t) : host_state[t[k]] \in mask }

\* HttpRequest::send up to the resolve call: the resolver, with its hosts in
\* any states, returns targets that satisfy the mask it is given
send ==
  /\ http_request.built
  /\ ~http_request.sent
  /\ \E host_state \in [Ips -> HostStates] :
     \E targets \in Allowed(host_state, ResolveMask(http_request)) :
       http_request' =
         [http_request EXCEPT !.sent = TRUE,
                              !.resolve_mask = ResolveMask(http_request),
                              !.host_state = host_state,
                              !.targets = targets]
  /\ UNCHANGED http_request_vars

\* The executor attempts the next target the resolver returned
AttemptTarget ==
  /\ http_request.sent
  /\ http_request.attempted < Len(http_request.targets)
  /\ http_request' = [http_request EXCEPT !.attempted = @ + 1]
  /\ UNCHANGED http_request_vars

NextHostState ==
  \/ NewHttpRequest
  \/ set_allowed_host_state
  \/ send
  \/ AttemptTarget

SpecHostState == Init /\ [][NextHostState]_vars

----------------------------------------------------------------------------
(* Diameter::Stack: add, remove and fd_hook_cb, one step per loop iteration *)

\* Everything of the HTTP connection, which the Diameter stack leaves alone
connection_vars ==
  <<pc, curl, deadline_ms, remote_ip, host_resolve, stat_table, lock, clock,
    attached, loc, obs, target_latency_us, timeout_ms, assert_user, request,
    server, view, sampled, response, http_request, handle>>

InPeers(p) == \E k \in 1..Len(stack._peers) : stack._peers[k] = p

\* Stack::add: when fd_peer_add accepts the peer it is pushed on the back of
\* _peers under the lock; when it refuses, nothing changes
add(p) ==
  /\ ~InPeers(p)
  /\ ~stack._peers_lock
  /\ \E rc \in {0, 1} :
       stack' = IF rc # 0
                THEN stack
                ELSE [stack EXCEPT !._peers = Append(@, p)]
  /\ UNCHANGED <<connection_vars, timeout_ts>>

\* std::find(_peers.begin(), _peers.end(), peer): the position of the first
\* element equal to peer, _peers.end() when there is none
find(peers, p) ==
  IF \E k \in 1..Len(peers) : peers[k] = p
  THEN CHOOSE k \in 1..Len(peers) :
         peers[k] = p /\ \A j \in 1..(k - 1) : peers[j] # p
  ELSE Len(peers) + 1

\* Stack::remove: the peer is erased from _peers, if it is there, under the
\* lock
remove(p) ==
  /\ ~stack._peers_lock
  /\ \E ii \in {find(stack._peers, p)} :
       stack' = IF ii # Len(stack._peers) + 1
                THEN [stack EXCEPT !._peers = erase(@, ii)]
                ELSE stack
  /\ InPeers(p)
  /\ UNCHANGED <<connection_vars, timeout_ts>>

\* What fd_hook_cb leaves behind when it returns: its locals are gone
Returns(st) ==
  [st EXCEPT !.pc = "idle", !.type = "none", !.peer = "NULL", !.ii = 0,
             !.erased = FALSE, !.before = <<>>, !.events = <<>>, !.log = {}]

\* fd_hook_cb up to the start of the scan: the type and the peer are checked
\* before the lock is taken
HookCalled(type, peer) ==
  /\ stack.pc = "idle"
  /\ IF type \notin {"HOOK_PEER_CONNECT_SUCCESS", "HOOK_PEER_CONNECT_FAILED"}
     THEN stack' = [stack EXCEPT !.type = type, !.peer = peer,
                                 !.log = {"Unexpected hook type"},
                                 !.pc = "return"]
     ELSE IF peer = "NULL"
     THEN stack' = [stack EXCEPT !.type = type, !.peer = peer,
                                 !.log = {"No peer supplied"},
                                 !.pc = "return"]
     ELSE /\ ~stack._peers_lock
          /\ stack' = [stack EXCEPT !.type = type, !.peer = peer, !.ii = 1,
                                    !._peers_lock = TRUE,
                                    !.before = stack._peers,
                                    !.pc = "scan"]
  /\ UNCHANGED <<connection_vars, timeout_ts>>

\* fd_hook_cb: one iteration of the loop over _peers
Scan ==
  /\ stack.pc = "scan"
  /\ IF stack.ii = Len(stack._peers) + 1
     THEN stack' = [stack EXCEPT !.pc = "after"]
     ELSE IF host(stack._peers[stack.ii]) # stack.peer
     THEN stack' = [stack EXCEPT !.ii = @ + 1]
     ELSE IF stack.type = "HOOK_PEER_CONNECT_SUCCESS"
     THEN \E p \in {stack._peers[stack.ii]} :
            stack' = [stack EXCEPT
                        !.events = @ \o <<Event("connection_succeeded", p),
                                          Event("set_connected", p)>>,
                        !.connected = @ \cup {p},
                        !.pc = "after"]
     ELSE \E p \in {stack._peers[stack.ii]} :
            stack' = [stack EXCEPT
                        !._peers = erase(@, stack.ii),
                        !.erased = TRUE,
                        !.events = @ \o <<Event("erase", p),
                                          Event("connection_failed", p)>>,
                        !.pc = "after"]
  /\ UNCHANGED <<connection_vars, timeout_ts>>

\* fd_hook_cb after the loop: ii is compared with _peers.end() and the
\* diagnostic is logged when they are equal.  After an erase ii is an
\* invalidated iterator and the comparison may give either answer (an
\* iterator that is a pointer gives "equal" exactly when the erased element
\* was the last one)
AfterLoop ==
  /\ stack.pc = "after"
  /\ \E at_end \in IF stack.erased
                   THEN BOOLEAN
                   ELSE {stack.ii = Len(stack._peers) + 1} :
       stack' = [stack EXCEPT
                   !.log = IF at_end THEN {"Unexpected host"} ELSE {},
                   !.pc = "unlock"]
  /\ UNCHANGED <<connection_vars, timeout_ts>>

\* fd_hook_cb: the lock is released and the callback returns
HookUnlock ==
  /\ stack.pc = "unlock"
  /\ stack' = Returns([stack EXCEPT !._peers_lock = FALSE])
  /\ UNCHANGED <<connection_vars, timeout_ts>>

\* fd_hook_cb: the return of a callback that took neither branch
HookReturn ==
  /\ stack.pc = "return"
  /\ stack' = Returns(stack)
  /\ UNCHANGED <<connection_vars, timeout_ts>>

NextDiameter ==
  \/ \E p \in Peers : add(p)
  \/ \E p \in Peers : remove(p)
  \/ \E type \in HookTypes, peer \in HookPeers : HookCalled(type, peer)
  \/ Scan
  \/ AfterLoop
  \/ HookUnlock
  \/ HookReturn

SpecDiameter == Init /\ [][NextDiameter]_vars

----------------------------------------------------------------------------
(* Diameter::Stack::send with a timeout *)

\* Bounds on the clock's seconds and on the whole seconds of a timeout
MaxNowSec == 1
MaxTimeoutSec == 1

\* The largest timeout_ms of the model: an unsigned int of the source holds
\* more, this is the largest integer the checker holds
MaxTimeoutMs == 2147483647

\* What clock_gettime(CLOCK_REALTIME) may give: tv_nsec on both sides of a
\* millisecond and of a second
Timespecs ==
  [tv_sec : 0..MaxNowSec,
   tv_nsec : {0, 1, 999999, 1000000, 500000000, 999000000, 999999999}]

\* The timeouts a caller may give
Timeouts ==
  {sec * 1000 + ms : sec \in 0..MaxTimeoutSec, ms \in {0, 1, 500, 999}}
    \cup {MaxTimeoutMs}

\* Variant of the deadline computation that drops the carry
send_deadline_NoCarry(now, ms) ==
  [tv_sec |-> now.tv_sec + (ms \div 1000),
   tv_nsec |-> (now.tv_nsec + (ms % 1000) * 1000 * 1000)
                 % (1000 * 1000 * 1000)]

\* The three assignments to timeout_ts, in order.  (timeout_ms % 1000) *
\* 1000 * 1000 is at most 999000000 and the sum at most 1998999999, which
\* an unsigned int and a 32-bit long hold, so nothing wraps
send_deadline(now, ms) ==
  LET tv_nsec == now.tv_nsec + (ms % 1000) * 1000 * 1000
      tv_sec == now.tv_sec + (ms \div 1000) + (tv_nsec \div (1000 * 1000 * 1000))
  IN [tv_sec |-> tv_sec, tv_nsec |-> tv_nsec % (1000 * 1000 * 1000)]

\* Stack::send(fd_msg, tsx, timeout_ms)
send_timeout(now, ms) ==
  /\ \E ts \in {send_deadline(now, ms)} :
       timeout_ts' = [sent |-> TRUE, now |-> now, timeout_ms |-> ms,
                      tv_sec |-> ts.tv_sec, tv_nsec |-> ts.tv_nsec]
  /\ UNCHANGED <<connection_vars, stack>>

NextSend == \E now \in Timespecs, ms \in Timeouts : send_timeout(now, ms)

SpecSend == Init /\ [][NextSend]_vars

----------------------------------------------------------------------------
(* Reading the record of a call *)

Last(a) == a[Len(a)]

\* How many of the attempts a ended in one of the outcomes in S
CountOutcome(a, S) == Cardinality({j \in 1..Len(a) : a[j].outcome \in S})

\* The attempt a[k] is one after which the stopping rule lets nothing follow
StopsAfter(a, k) ==
  \/ a[k].outcome \in {"ok", "fatal_http", "http_504"}
  \/ CountOutcome(SubSeq(a, 1, k), {"http_503", "timeout_or_io"}) >= 2

InCall(w) == pc[w] \in {"loop", "returned"}

----------------------------------------------------------------------------
(* C1 *)

----------------------------------------------------------------------------
(* C2 *)

\* C2 as stated: a resolved candidate means at least one attempt, and
\* exactly one candidate means the list is doubled and at least two
\* attempts are made.
C2_AlwaysTwoAttempts ==
  \A w \in Workers :
    pc[w] = "returned" =>
      /\ Len(obs[w].resolved) >= 1 => Len(obs[w].attempts) >= 1
      /\ Len(obs[w].resolved) = 1 =>
           /\ Len(loc[w].targets) = 2
           /\ Len(obs[w].attempts) >= 2

\* C2 amended: a resolved candidate means at least one attempt; exactly one
\* candidate means the list is that candidate twice, and it is tried twice
\* unless the first attempt stops the loop (ok, fatal_http or a 504), and
\* then once.
C2_RetryUnlessStopped ==
  \A w \in Workers :
    pc[w] = "returned" =>
      LET a == obs[w].attempts
          res == obs[w].resolved
      IN /\ Len(res) >= 1 => Len(a) >= 1
         /\ Len(res) = 1 =>
              /\ loc[w].targets = <<res[1], res[1]>>
              /\ \A k \in 1..Len(a) : a[k].target = res[1]
              /\ Len(a) = IF a[1].outcome \in {"ok", "fatal_http", "http_504"}
                          THEN 1 ELSE 2

C2_Witness ==
  \E w \in Workers :
    /\ pc[w] = "returned"
    /\ Len(obs[w].resolved) = 1
    /\ Len(obs[w].attempts) = 2
    /\ obs[w].attempts[1].target = obs[w].attempts[2].target

----------------------------------------------------------------------------
(* C3 *)

\* C3: when the resolver returns no target, send_request attempts nothing,
\* blacklists nothing, returns 404, leaves the entry's remote_ip empty and
\* tells an attached communication monitor of a failure.
C3_NoTargets ==
  \A w \in Workers :
    pc[w] = "returned" /\ obs[w].resolved = <<>> =>
      /\ obs[w].attempts = <<>>
      /\ obs[w].blacklist = <<>>
      /\ obs[w].http_code = 404
      /\ remote_ip[w] = ""
      /\ attached.comm_monitor => obs[w].informs = <<"failure">>

C3_Witness ==
  \E w \in Workers :
    /\ pc[w] = "returned"
    /\ obs[w].resolved = <<>>
    /\ obs[w].remote_ip # ""
    /\ attached.comm_monitor

----------------------------------------------------------------------------
(* C4 *)

\* C4: with a load monitor attached, a call makes one incr_penalties call
\* when it saw two 503 responses or a 504, and none otherwise; never more
\* than one.
C4_PenaltyOnce ==
  \A w \in Workers :
    /\ obs[w].penalties <= 1
    /\ pc[w] = "returned" /\ attached.load_monitor =>
         obs[w].penalties =
           IF \/ CountOutcome(obs[w].attempts, {"http_503"}) >= 2
              \/ CountOutcome(obs[w].attempts, {"http_504"}) >= 1
           THEN 1 ELSE 0

C4_Witness ==
  \E w \in Workers :
    /\ pc[w] = "returned"
    /\ attached.load_monitor
    /\ Len(obs[w].attempts) = 2
    /\ \A k \in 1..2 : obs[w].attempts[k].outcome = "http_503"
    /\ obs[w].penalties = 1

----------------------------------------------------------------------------
(* C5 *)

\* C5: every attempt that forced a fresh connection and ended in
\* connect_failure has exactly one blacklist call, for the attempted target,
\* made before anything else is attempted.
C5_BlacklistOnConnectFailure ==
  \A w \in Workers :
    LET a == obs[w].attempts
        b == obs[w].blacklist
    IN \A k \in 1..Len(a) :
         a[k].fresh /\ a[k].outcome = "connect_failure" =>
           /\ Cardinality({j \in 1..Len(b) : b[j].attempt = k}) = 1
           /\ \A j \in 1..Len(b) : b[j].attempt = k => b[j].target = a[k].target

C5_Witness ==
  \E w \in Workers :
    /\ pc[w] = "loop"
    /\ Len(obs[w].attempts) = 1
    /\ obs[w].attempts[1].fresh
    /\ obs[w].attempts[1].outcome = "connect_failure"
    /\ obs[w].blacklist = <<[target |-> obs[w].attempts[1].target, attempt |-> 1]>>

----------------------------------------------------------------------------
(* C6 *)

\* The targets of list whose address prints as ip
Matching(list, ip) ==
  {list[k] : k \in {j \in 1..Len(list) : inet_ntop(list[j].address) = ip}}

\* list with the target whose address prints as ip moved to the front, the
\* others as they were; list itself when none matches or the connection is
\* expired
MovedToFront(list, ip, expired) ==
  IF expired \/ Matching(list, ip) = {} THEN list
  ELSE LET t == CHOOSE x \in Matching(list, ip) : TRUE
       IN <<t>> \o SelectSeq(list, LAMBDA x : x # t)

\* The list as the loop gets it: a single target twice
Doubled(list) == IF Len(list) = 1 THEN list \o list ELSE list

----------------------------------------------------------------------------
(* C7 *)

\* The status the claim gives for a transport result
StatusAsStated(r) ==
  CASE r.rc = "CURLE_OK" -> r.http_rc
    [] r.rc = "CURLE_URL_MALFORMAT" -> 400
    [] r.rc = "CURLE_REMOTE_FILE_NOT_FOUND" -> 404
    [] r.rc \in {"CURLE_COULDNT_RESOLVE_PROXY", "CURLE_COULDNT_RESOLVE_HOST",
                 "CURLE_COULDNT_CONNECT"} -> 404
    [] OTHER -> 500

\* The same with the two results the claim leaves out: feature not built in
\* is 400 and socket not ready is 404
StatusAmended(r) ==
  CASE r.rc = "CURLE_NOT_BUILT_IN" -> 400
    [] r.rc = "CURLE_AGAIN" -> 404
    [] OTHER -> StatusAsStated(r)

\* C7 as stated: the returned status is the claim's function of the final
\* attempt's transport result, every failure it does not name giving 500.
C7_StatusAsStated ==
  \A w \in Workers :
    pc[w] = "returned" /\ obs[w].attempts # <<>> =>
      obs[w].http_code = StatusAsStated(obs[w].perform)

\* C7 amended: the returned status is a function of the final attempt's
\* transport result only: success gives the status of the wire, URL
\* malformed or feature not built in 400, remote file not found 404, could
\* not resolve, could not connect or socket not ready 404, every other
\* failure 500.
C7_StatusOfFinalAttempt ==
  \A w \in Workers :
    pc[w] = "returned" /\ obs[w].attempts # <<>> =>
      obs[w].http_code = StatusAmended(obs[w].perform)

C7_Witness ==
  \E w \in Workers :
    /\ pc[w] = "returned"
    /\ Len(obs[w].attempts) = 2
    /\ obs[w].attempts[1].outcome = "http_503"
    /\ obs[w].perform.rc = "CURLE_AGAIN"
    /\ obs[w].http_code = 404

----------------------------------------------------------------------------
(* C8 *)

\* C8: after send_request returns, the entry's remote_ip is the printable
\* address of the last attempted target when the final attempt's transport
\* exchange succeeded, and empty when it failed or nothing was attempted.
C8_RemoteIpAfterCall ==
  \A w \in Workers :
    pc[w] = "returned" =>
      remote_ip[w] =
        IF obs[w].attempts # <<>> /\ obs[w].perform.rc = "CURLE_OK"
        THEN inet_ntop(Last(obs[w].attempts).target.address)
        ELSE ""

C8_Witness ==
  \E w \in Workers :
    /\ pc[w] = "returned"
    /\ Len(obs[w].attempts) = 2
    /\ Last(obs[w].attempts).fresh
    /\ Last(obs[w].attempts).outcome = "ok"
    /\ obs[w].remote_ip # remote_ip[w]
    /\ obs[w].remote_ip # ""
    /\ remote_ip[w] = inet_ntop(Last(obs[w].attempts).target.address)

----------------------------------------------------------------------------
(* C9 *)

InSetRemoteIp(w) ==
  pc[w] \in {"set_remote_ip", "lock", "decrement", "remove", "increment",
             "unlock", "store"}

\* The count the table shows for ip: none when there is no row
CountOf(ip) == IF ip \in DOMAIN stat_table THEN stat_table[ip] ELSE 0

RECURSIVE SumOf(_)
SumOf(ips) ==
  IF ips = {} THEN 0
  ELSE LET ip == CHOOSE x \in ips : TRUE IN CountOf(ip) + SumOf(ips \ {ip})

\* C9: whenever no thread is inside set_remote_ip, the counter of each IP
\* is the number of entries whose remote_ip is that IP, and the counters sum
\* to the number of entries whose remote_ip is not empty.
C9_CountersMatchEntries ==
  (\A w \in Workers : ~InSetRemoteIp(w)) =>
    /\ \A ip \in IpStrs : CountOf(ip) = Cardinality({w \in Workers : remote_ip[w] = ip})
    /\ DOMAIN stat_table \subseteq IpStrs
    /\ SumOf(DOMAIN stat_table) = Cardinality({w \in Workers : remote_ip[w] # ""})

C9_Witness ==
  /\ \A w \in Workers : ~InSetRemoteIp(w)
  /\ \E v, w \in Workers :
       /\ v # w
       /\ remote_ip[v] # ""
       /\ remote_ip[v] = remote_ip[w]
       /\ CountOf(remote_ip[v]) = 2

----------------------------------------------------------------------------
(* C10 *)

\* C10: no counter is ever negative; a decrement finds the row of the
\* entry's own IP at one or more; and a row at zero is seen only while the
\* mutex is held, by the thread about to remove it.
C10_CountersPositive ==
  /\ \A ip \in DOMAIN stat_table : stat_table[ip] >= 0
  /\ \A w \in Workers :
       pc[w] = "decrement" /\ remote_ip[w] # "" =>
         remote_ip[w] \in DOMAIN stat_table /\ stat_table[remote_ip[w]] >= 1
  /\ lock = 0 => \A ip \in DOMAIN stat_table : stat_table[ip] >= 1
  /\ \A ip \in DOMAIN stat_table :
       stat_table[ip] = 0 =>
         \E w \in Workers : lock = w /\ pc[w] = "remove" /\ remote_ip[w] = ip

C10_Witness ==
  \E w \in Workers :
    /\ pc[w] = "remove"
    /\ lock = w
    /\ stat_table[remote_ip[w]] = 0
    /\ \E v \in Workers : v # w /\ pc[v] = "lock"

----------------------------------------------------------------------------
\* The attempts of the call that were classified ok on a forced new connection
OkFresh(a) == {k \in 1..Len(a) : a[k].outcome = "ok" /\ a[k].fresh}

\* C11: for a given cache entry deadline_ms never decreases: with a
\* non-decreasing clock and non-negative sampled intervals, every step of
\* every call leaves each entry's deadline_ms at or above its previous value.
C11_DeadlineNeverDecreases ==
  [][\A w \in Workers : deadline_ms'[w] >= deadline_ms[w]]_vars

\* An entry whose deadline was already set by an earlier call has been moved
\* forward again by this call
C11_Witness ==
  \E w \in SeqWorkers :
    /\ InCall(w)
    /\ obs[w].deadline_ms > 0
    /\ obs[w].deadline_updates = 1
    /\ deadline_ms[w] > obs[w].deadline_ms

\* C12: every attempt of a call forces a fresh connection exactly when the
\* call's now_ms was above the entry's deadline_ms at the start of the call
\* (always so on a new entry, whose deadline is 0), the flag is the same on all
\* attempts of the call, and a call that does not force it runs on the handle
\* the earlier call left behind.
C12_FreshIffExpired ==
  \A w \in SeqWorkers :
    InCall(w) =>
      /\ \A k \in 1..Len(obs[w].attempts) :
           obs[w].attempts[k].fresh = (loc[w].now_ms > obs[w].deadline_ms)
      /\ loc[w].recycle_conn = (loc[w].now_ms > obs[w].deadline_ms)
      /\ (obs[w].deadline_ms = 0 => loc[w].recycle_conn)
      /\ curl[w].exists

\* A second call inside the deadline the first one set has made an attempt
\* without forcing a fresh connection
C12_Witness ==
  \E w \in SeqWorkers :
    /\ InCall(w)
    /\ obs[w].deadline_ms > 0
    /\ loc[w].now_ms <= obs[w].deadline_ms
    /\ Len(obs[w].attempts) >= 1
    /\ ~obs[w].attempts[1].fresh

\* C13: a call changes the entry's deadline_ms only by one update_deadline,
\* made when an attempt is classified ok on a forced new connection; in every
\* other call deadline_ms keeps the value it had when the call started; and a
\* successful reuse of the connection to the peer recorded in remote_ip leaves
\* remote_ip as it was.
C13_DeadlineFrame ==
  \A w \in SeqWorkers :
    InCall(w) =>
      /\ obs[w].deadline_updates = Cardinality(OkFresh(obs[w].attempts))
      /\ obs[w].deadline_updates <= 1
      /\ obs[w].deadline_updates = 0 => deadline_ms[w] = obs[w].deadline_ms
      /\ obs[w].deadline_updates = 1 =>
           \E interval \in 0..MaxInterval :
             deadline_ms[w] =
               IF obs[w].deadline_ms = 0
                  \/ obs[w].deadline_ms + interval < loc[w].now_ms
               THEN loc[w].now_ms + interval
               ELSE obs[w].deadline_ms + interval
      /\ ( /\ pc[w] = "returned"
           /\ Len(obs[w].attempts) >= 1
           /\ Last(obs[w].attempts).outcome = "ok"
           /\ ~Last(obs[w].attempts).fresh
           /\ inet_ntop(Last(obs[w].attempts).target.address) = obs[w].remote_ip )
         => remote_ip[w] = obs[w].remote_ip

\* A call inside the deadline has succeeded on the reused connection to the
\* recorded peer
C13_Witness ==
  \E w \in SeqWorkers :
    /\ pc[w] = "returned"
    /\ obs[w].deadline_ms > 0
    /\ Len(obs[w].attempts) = 1
    /\ obs[w].attempts[1].outcome = "ok"
    /\ ~obs[w].attempts[1].fresh
    /\ inet_ntop(obs[w].attempts[1].target.address) = obs[w].remote_ip
    /\ deadline_ms[w] = obs[w].deadline_ms

----------------------------------------------------------------------------
\* The verdict the communication monitor gets when success means a final
\* attempt classified ok
InformAsStated(o) ==
  IF /\ o.attempts # <<>>
     /\ Last(o.attempts).outcome = "ok"
     /\ CountOutcome(o.attempts, {"http_503"}) < 2
  THEN "success" ELSE "failure"

\* The verdict when success means that the final transfer brought back a
\* response, whatever its status
InformAmended(o) ==
  IF /\ o.attempts # <<>>
     /\ o.perform.rc = "CURLE_OK"
     /\ CountOutcome(o.attempts, {"http_503"}) < 2
  THEN "success" ELSE "failure"

\* C14 as stated: with a communication monitor attached, a finished call has
\* informed it exactly once, of success iff the final attempt was classified
\* ok and fewer than two 503 responses were seen, of failure in every other
\* case.
C14_InformAsStated ==
  \A w \in SeqWorkers :
    pc[w] = "returned" /\ attached.comm_monitor =>
      obs[w].informs = <<InformAsStated(obs[w])>>

\* C14: with a communication monitor attached, a call informs it exactly once,
\* at its end: of success iff the final transfer completed with a response
\* of any status and fewer than two 503 responses were seen, of failure
\* otherwise; without a monitor nothing is informed.
C14_InformOnTransferResult ==
  \A w \in SeqWorkers :
    /\ pc[w] = "loop" => obs[w].informs = <<>>
    /\ pc[w] = "returned" =>
         obs[w].informs = IF attached.comm_monitor
                          THEN <<InformAmended(obs[w])>> ELSE <<>>

\* Two 503 responses have ended a call whose final transfer completed: the
\* monitor was told of a failure
C14_Witness ==
  \E w \in SeqWorkers :
    /\ pc[w] = "returned"
    /\ attached.comm_monitor
    /\ Len(obs[w].attempts) = 2
    /\ CountOutcome(obs[w].attempts, {"http_503"}) = 2
    /\ obs[w].perform.rc = "CURLE_OK"
    /\ obs[w].informs = <<"failure">>

----------------------------------------------------------------------------
\* The reason an abort event carries after the attempts a
ReasonAfter(a) ==
  IF Last(a).outcome = "fatal_http" THEN "Permanent" ELSE "Temporary"

\* C15 as stated: a call that has made attempts and ends without a successful
\* one, the exhaustion of the target list included, has emitted one abort
\* event, Permanent iff the final attempt was fatal_http; a call that ends in
\* success has emitted none.
C15_AbortAsStated ==
  \A w \in SeqWorkers :
    pc[w] = "returned" /\ obs[w].attempts # <<>> =>
      obs[w].aborts = IF Last(obs[w].attempts).outcome = "ok"
                      THEN <<>> ELSE <<ReasonAfter(obs[w].attempts)>>

\* C15: a call emits one abort event exactly when it stops on the stopping
\* rule after a failed attempt (fatal_http, two 503 or timeout_or_io
\* failures, or a 504), Permanent iff that attempt was fatal_http and
\* Temporary otherwise; a call that ends in success, or that runs out of
\* targets without the rule having fired, emits none.
C15_AbortOnDeliberateStop ==
  \A w \in SeqWorkers :
    /\ pc[w] = "loop" => obs[w].aborts = <<>>
    /\ pc[w] = "returned" =>
         obs[w].aborts =
           IF /\ obs[w].attempts # <<>>
              /\ Last(obs[w].attempts).outcome # "ok"
              /\ StopsAfter(obs[w].attempts, Len(obs[w].attempts))
           THEN <<ReasonAfter(obs[w].attempts)>> ELSE <<>>

\* A fatal HTTP error has stopped a call that still had a target to try
C15_Witness ==
  \E w \in SeqWorkers :
    /\ pc[w] = "returned"
    /\ Len(obs[w].attempts) = 1
    /\ Len(loc[w].targets) = 2
    /\ obs[w].attempts[1].outcome = "fatal_http"
    /\ obs[w].aborts = <<"Permanent">>

----------------------------------------------------------------------------
\* C17: send_request comes back on every path: while it is in its loop the
\* next target to try exists and every earlier target was tried once, so the
\* loop ends with the list at the latest; and the status it returns, for an
\* empty target list, for every outcome of the final attempt and for an early
\* break alike, is an HTTP status of at least 100, never 0.
C17_ReturnsStatus ==
  \A w \in SeqWorkers :
    /\ pc[w] = "loop" =>
         /\ loc[w].i \in 1..Len(loc[w].targets)
         /\ Len(obs[w].attempts) = loc[w].i - 1
    /\ pc[w] = "returned" =>
         /\ obs[w].returned
         /\ Len(obs[w].attempts) <= Len(loc[w].targets)
         /\ obs[w].http_code >= 100
         /\ loc[w].http_code = obs[w].http_code

\* A call has returned without any attempt, its resolver having found no
\* target
C17_Witness ==
  \E w \in SeqWorkers :
    /\ pc[w] = "returned"
    /\ obs[w].resolved = <<>>
    /\ obs[w].attempts = <<>>
    /\ obs[w].http_code = HTTP_NOT_FOUND

----------------------------------------------------------------------------
\* C20: when some attempt of a call is classified ok, it is the call's last
\* attempt, and the call returns that attempt's status (below 400) and the
\* body that attempt received, nothing of an earlier attempt's body; no
\* penalty is applied and remote_ip is the address of that attempt's target.
C20_SuccessAfterFailure ==
  \A w \in SeqWorkers :
    pc[w] = "returned" =>
      \A k \in 1..Len(obs[w].attempts) :
        obs[w].attempts[k].outcome = "ok" =>
          /\ k = Len(obs[w].attempts)
          /\ obs[w].http_code = obs[w].perform.http_rc
          /\ obs[w].http_code < 400
          /\ loc[w].doc = <<k>>
          /\ obs[w].penalties = 0
          /\ remote_ip[w] = inet_ntop(obs[w].attempts[k].target.address)

\* Targets [A, B]: a 503 from A, then a 200 from B
C20_Witness ==
  \E w \in SeqWorkers :
    /\ pc[w] = "returned"
    /\ Len(obs[w].attempts) = 2
    /\ obs[w].attempts[1].outcome = "http_503"
    /\ obs[w].attempts[2].outcome = "ok"
    /\ obs[w].attempts[1].target # obs[w].attempts[2].target
    /\ obs[w].http_code = 200
    /\ obs[w].penalties = 0
    /\ remote_ip[w] = inet_ntop(obs[w].attempts[2].target.address)

----------------------------------------------------------------------------
\* C18: the response timeout the constructor computes is
\* max(1, target_latency_us * 5 / 1000) in integer division, for every
\* positive target latency an int can hold, from the load monitor's target
\* latency or from the default 500000 us without one; 1 us gives 1 ms and the
\* default 2500 ms. (5 * l / 1000 and l / 200 have the same integer quotient.)
C18_TimeoutFormula ==
  timeout_ms # 0 =>
    LET l == IF attached.load_monitor THEN target_latency_us ELSE 500000
    IN /\ timeout_ms = Max(1, l \div 200)
       /\ l = 1 => timeout_ms = 1
       /\ l = 500000 => timeout_ms = 2500

----------------------------------------------------------------------------
\* The positions of the headers named Expect in the list h
ExpectAt(h) == {k \in 1..Len(h) : h[k].name = "Expect"}

\* The positions of the headers "Expect: 100-continue" in the list h
ContinueAt(h) == {k \in 1..Len(h) : h[k] = Header("Expect", "100-continue")}

\* The first Expect header of the list h has an empty value
FirstExpectEmpty(h) ==
  /\ ExpectAt(h) # {}
  /\ \A k \in ExpectAt(h) : (\A j \in ExpectAt(h) : k <= j) => h[k].value = ""

\* C16 as stated: for every method and whatever extra headers the caller
\* passes, the first Expect header of the list handed to the transport has an
\* empty value and the list holds no "Expect: 100-continue".
C16_NoExpectContinue ==
  request.method # "none" =>
    /\ FirstExpectEmpty(request.http_header)
    /\ ContinueAt(request.http_header) = {}

\* C16: for every method and whatever extra headers the caller passes, the
\* first Expect header of the list handed to the transport has an empty
\* value, and the list holds an "Expect: 100-continue" only where the caller
\* passed one among its extra headers: none is added, and POST and DELETE,
\* which take no extra headers, carry none.
C16_FirstExpectEmpty ==
  request.method # "none" =>
    /\ FirstExpectEmpty(request.http_header)
    /\ Cardinality(ContinueAt(request.http_header))
         = Cardinality(ContinueAt(request.headers_to_add))
    /\ request.method \in {"POST", "DELETE"} =>
         ContinueAt(request.http_header) = {}

\* A PUT with a body whose caller passed "Expect: 100-continue" as its first
\* extra header
C16_Witness ==
  /\ request.method = "PUT"
  /\ request.body # ""
  /\ Len(request.headers_to_add) >= 1
  /\ request.headers_to_add[1] = Header("Expect", "100-continue")
  /\ FirstExpectEmpty(request.http_header)

----------------------------------------------------------------------------
\* C19: calls of different threads share no mutable state but the counter
\* table: no public send operation writes _server, _host or _port while the
\* call of another thread, which reads them, is in flight; so every call
\* builds its URL and resolves its host and port from one and the same server.
C19_NoSharedServerState ==
  /\ \A w, v \in Workers :
       w # v /\ pc[w] \in {"change_server", "set_host", "set_port"}
         => pc[v] \notin {"url", "resolve"}
  /\ \A w \in Workers :
       pc[w] = "sent" =>
         /\ view[w].url = ServerName(view[w].host, view[w].port)
         /\ view[w].override # NoServer => view[w].url = view[w].override

----------------------------------------------------------------------------
\* Every attempt of the list a ended in connect_failure
AllConnectFailures(a) ==
  \A k \in 1..Len(a) : a[k].outcome = "connect_failure"

\* The transport results that tell of a peer that could not be found or
\* reached
Unreachable ==
  {"CURLE_COULDNT_RESOLVE_PROXY", "CURLE_COULDNT_RESOLVE_HOST",
   "CURLE_COULDNT_CONNECT", "CURLE_AGAIN"}

\* C21 as stated: a call with no candidates, or whose attempts all ended in
\* connect_failure, returns 404.
C21_ConnectFailureIs404 ==
  \A w \in SeqWorkers :
    pc[w] = "returned" /\ AllConnectFailures(obs[w].attempts) =>
      obs[w].http_code = HTTP_NOT_FOUND

\* C21: a call with no candidates returns 404; a call whose attempts all
\* ended in connect_failure returns 404 when its final attempt could not
\* resolve or reach the peer (or the socket was not ready), 400 when the final
\* attempt failed on a malformed URL or a feature not built in, and 500 after
\* any other such failure.
C21_UnreachableIs404 ==
  \A w \in SeqWorkers :
    pc[w] = "returned" /\ AllConnectFailures(obs[w].attempts) =>
      /\ obs[w].attempts = <<>> => obs[w].http_code = HTTP_NOT_FOUND
      /\ obs[w].attempts # <<>> =>
           obs[w].http_code =
             CASE obs[w].perform.rc \in Unreachable -> HTTP_NOT_FOUND
               [] obs[w].perform.rc \in {"CURLE_URL_MALFORMAT", "CURLE_NOT_BUILT_IN"}
                    -> HTTP_BAD_REQUEST
               [] OTHER -> HTTP_SERVER_ERROR

\* Both targets of a call could not be connected to: 404
C21_Witness ==
  \E w \in SeqWorkers :
    /\ pc[w] = "returned"
    /\ Len(obs[w].attempts) = 2
    /\ AllConnectFailures(obs[w].attempts)
    /\ obs[w].perform.rc = "CURLE_COULDNT_CONNECT"
    /\ obs[w].http_code = HTTP_NOT_FOUND

----------------------------------------------------------------------------
\* C22: a call makes at most max(2, n) attempts, n <= MAX_TARGETS being the
\* number of targets the resolver returned: the list it walks is no longer
\* than that, the k-th attempt goes to the k-th position of the list, and the
\* loop is always at the position after the last one tried, so no position
\* is tried twice.
C22_BoundedAttempts ==
  \A w \in SeqWorkers :
    InCall(w) =>
      /\ Len(obs[w].resolved) <= MAX_TARGETS
      /\ Len(loc[w].targets) <= Max(2, Len(obs[w].resolved))
      /\ Len(obs[w].attempts) <= Len(loc[w].targets)
      /\ \A k \in 1..Len(obs[w].attempts) :
           obs[w].attempts[k].target = loc[w].targets[k]
      /\ pc[w] = "loop" => loc[w].i = Len(obs[w].attempts) + 1

\* The resolver returned one target, and the call made max(2, 1) = 2
\* attempts
C22_Witness ==
  \E w \in SeqWorkers :
    /\ pc[w] = "returned"
    /\ Len(obs[w].resolved) = 1
    /\ Len(obs[w].attempts) = 2

----------------------------------------------------------------------------
\* C26: the attempts of a call follow the list in order; after a failed
\* attempt that does not fulfil a stop condition (a connect_failure, or the
\* first 503 or timeout_or_io) the call goes on to the next position while one
\* is left, and it ends without a stop condition only when the list is
\* exhausted; so a call whose attempts all end in connect_failure tries every
\* target of the list.
C26_NextTargetInOrder ==
  \A w \in SeqWorkers :
    /\ pc[w] = "loop" /\ obs[w].attempts # <<>> =>
         /\ ~StopsAfter(obs[w].attempts, Len(obs[w].attempts))
         /\ loc[w].i = Len(obs[w].attempts) + 1
         /\ loc[w].i <= Len(loc[w].targets)
    /\ InCall(w) =>
         \A k \in 1..Len(obs[w].attempts) :
           /\ obs[w].attempts[k].target = loc[w].targets[k]
           /\ k < Len(obs[w].attempts) => ~StopsAfter(obs[w].attempts, k)
    /\ pc[w] = "returned" /\ obs[w].attempts # <<>> =>
         \/ StopsAfter(obs[w].attempts, Len(obs[w].attempts))
         \/ Len(obs[w].attempts) = Len(loc[w].targets)
    /\ pc[w] = "returned" /\ AllConnectFailures(obs[w].attempts) =>
         Len(obs[w].attempts) = Len(loc[w].targets)

\* A 503 from the first of two different targets was followed by an attempt
\* at the second one
C26_Witness ==
  \E w \in SeqWorkers :
    /\ InCall(w)
    /\ Len(obs[w].attempts) = 2
    /\ obs[w].attempts[1].outcome = "http_503"
    /\ obs[w].attempts[1].target # obs[w].attempts[2].target
    /\ obs[w].attempts[2].target = loc[w].targets[2]

----------------------------------------------------------------------------
\* How often resolver.blacklist was called in the k-th attempt
BlacklistCalls(o, k) ==
  Cardinality({j \in 1..Len(o.blacklist) : o.blacklist[j].attempt = k})

\* C27 as stated: blacklist is never called for an attempt that ended ok,
\* http_503, http_504, fatal_http or timeout_or_io, nor for one that did not
\* force a fresh connection, and at most once per attempt.
C27_NoBlacklistOnTimeout ==
  \A w \in SeqWorkers :
    \A k \in 1..Len(obs[w].attempts) :
      /\ BlacklistCalls(obs[w], k) <= 1
      /\ ( \/ obs[w].attempts[k].outcome
                \in {"ok", "http_503", "http_504", "fatal_http", "timeout_or_io"}
           \/ ~obs[w].attempts[k].fresh )
         => BlacklistCalls(obs[w], k) = 0

\* C27: blacklist is never called for an attempt that ended ok, http_503,
\* http_504 or fatal_http, nor for one that did not force a fresh connection;
\* it is called once, with the attempt's target, for an attempt on a forced
\* fresh connection that got no HTTP response: a timeout_or_io as well as a
\* connect_failure; and never more than once per attempt.
C27_BlacklistWithoutResponse ==
  \A w \in SeqWorkers :
    /\ \A k \in 1..Len(obs[w].attempts) :
         BlacklistCalls(obs[w], k) =
           IF /\ obs[w].attempts[k].fresh
              /\ obs[w].attempts[k].outcome \in {"connect_failure", "timeout_or_io"}
           THEN 1 ELSE 0
    /\ \A j \in 1..Len(obs[w].blacklist) :
         /\ obs[w].blacklist[j].attempt \in 1..Len(obs[w].attempts)
         /\ obs[w].blacklist[j].target
              = obs[w].attempts[obs[w].blacklist[j].attempt].target

\* An attempt inside the deadline, on the reused connection, could not
\* connect, and its target was not blacklisted
C27_Witness ==
  \E w \in SeqWorkers :
    /\ InCall(w)
    /\ Len(obs[w].attempts) >= 1
    /\ ~obs[w].attempts[1].fresh
    /\ obs[w].attempts[1].outcome = "connect_failure"
    /\ obs[w].blacklist = <<>>

----------------------------------------------------------------------------
\* C28 as stated: when the resolver returned one target and a second attempt
\* follows the first, it goes to the same target and does not force a fresh
\* connection unless the first attempt ended in connect_failure.
C28_SecondAttemptReuses ==
  \A w \in SeqWorkers :
    InCall(w) /\ Len(obs[w].resolved) = 1 /\ Len(obs[w].attempts) = 2 =>
      /\ obs[w].attempts[2].target = obs[w].attempts[1].target
      /\ obs[w].attempts[1].outcome # "connect_failure" =>
           ~obs[w].attempts[2].fresh

\* C28: when the resolver returned one target and the first attempt fails
\* without stopping the loop, the second attempt goes to the same target with
\* the fresh-connection flag of the first: forced on both when the deadline
\* had passed at the start of the call, on neither when it had not, whatever
\* the first attempt's failure was.
C28_SecondAttemptSameFlag ==
  \A w \in SeqWorkers :
    InCall(w) /\ Len(obs[w].resolved) = 1 =>
      /\ Len(obs[w].attempts) <= 2
      /\ Len(obs[w].attempts) = 2 =>
           /\ ~StopsAfter(obs[w].attempts, 1)
           /\ obs[w].attempts[2].target = obs[w].attempts[1].target
           /\ obs[w].attempts[2].target = obs[w].resolved[1]
           /\ obs[w].attempts[2].fresh = obs[w].attempts[1].fresh
           /\ obs[w].attempts[2].fresh = (loc[w].now_ms > obs[w].deadline_ms)

\* One target, deadline passed: a 503 on a forced new connection was followed
\* by a second attempt that forced a new connection again
C28_Witness ==
  \E w \in SeqWorkers :
    /\ InCall(w)
    /\ Len(obs[w].resolved) = 1
    /\ Len(obs[w].attempts) = 2
    /\ obs[w].attempts[1].outcome = "http_503"
    /\ obs[w].attempts[1].fresh
    /\ obs[w].attempts[2].fresh

----------------------------------------------------------------------------
\* C29: update_deadline(now_ms) with the sampled interval i >= 0 sets
\* deadline_ms to now_ms + i when deadline_ms was 0 or deadline_ms + i < now_ms,
\* and to deadline_ms + i otherwise; each update draws one sample from the
\* entry's sampler.
C29_UpdateDeadline ==
  \A w \in SeqWorkers :
    sampled[w].updates > 0 =>
      /\ sampled[w].interval >= 0
      /\ deadline_ms[w] =
           IF \/ sampled[w].before = 0
              \/ sampled[w].before + sampled[w].interval < sampled[w].now
           THEN sampled[w].now + sampled[w].interval
           ELSE sampled[w].before + sampled[w].interval
      /\ sampled[w].draws = sampled[w].updates

\* An update of a deadline that had not gone stale: the interval was added to
\* the old deadline, not to the later now_ms
C29_Witness ==
  \E w \in SeqWorkers :
    /\ sampled[w].updates > 0
    /\ sampled[w].before # 0
    /\ sampled[w].now > sampled[w].before
    /\ sampled[w].before + sampled[w].interval >= sampled[w].now
    /\ deadline_ms[w] = sampled[w].before + sampled[w].interval

----------------------------------------------------------------------------
\* The positions of the headers called name in the list h
HeadersNamed(h, name) == {k \in 1..Len(h) : h[k].name = name}

\* C24: every request carries "Content-Type: application/json" iff its body
\* is non-empty, and an X-XCAP-Asserted-Identity header iff the connection
\* asserts the user; the value of that header is the username the caller
\* gave, for GET, PUT, POST and DELETE alike.
C24_ContentTypeAndIdentity ==
  request.method # "none" =>
    /\ (HeadersNamed(request.http_header, "Content-Type") # {})
         = (request.body # "")
    /\ \A k \in HeadersNamed(request.http_header, "Content-Type") :
         request.http_header[k].value = "application/json"
    /\ (HeadersNamed(request.http_header, "X-XCAP-Asserted-Identity") # {})
         = assert_user
    /\ \A k \in HeadersNamed(request.http_header, "X-XCAP-Asserted-Identity") :
         request.http_header[k].value = request.caller_username

----------------------------------------------------------------------------
\* C25: for GET, PUT, POST and DELETE, the response header map the caller
\* gets back is the parse of the header lines of the final attempt's
\* response (lowercased keys, last duplicate wins): it is populated for every
\* method and holds nothing of an earlier, failed attempt of the call.
C25_HeadersOfFinalAttempt ==
  response.returned =>
    response.headers = WriteAll(response.lines, EmptyMap)

----------------------------------------------------------------------------
\* The override the latest attempt of thread w's call installed
OverrideOf(a) == [port |-> a.target.port, ip |-> inet_ntop(a.target.address)]

\* C30: on every cache entry, through any sequence of attempts and calls,
\* the pending list holds at most one directive, the removal of the override
\* the most recent attempt installed; the list an attempt gives the transport
\* is the pending removal (if any) followed by its own host:port -> ip
\* mapping; the transport has at most one override active, and during and
\* after an attempt it is that attempt's own.
C30_OneOverrideAtATime ==
  \A w \in Workers :
    /\ Len(host_resolve[w]) <= 1
    /\ \A k \in 1..Len(host_resolve[w]) :
         /\ host_resolve[w][k].op = "remove"
         /\ \E e \in curl[w].dns : e.port = host_resolve[w][k].port
    /\ Cardinality(curl[w].dns) <= 1
    /\ Len(curl[w].resolve) <= 2
    /\ Len(curl[w].resolve) = 2 => curl[w].resolve[1].op = "remove"
    /\ obs[w].attempts # <<>> =>
         /\ curl[w].dns = {OverrideOf(Last(obs[w].attempts))}
         /\ host_resolve[w] =
              <<RemoveDirective(Last(obs[w].attempts).target.port)>>
         /\ Last(curl[w].resolve).op = "add"
         /\ OverrideOf(Last(obs[w].attempts))
              = [port |-> Last(curl[w].resolve).port,
                 ip |-> Last(curl[w].resolve).ip]

\* The second attempt of a call, on another address than the first: the
\* removal came first in its list, and the only override is the new one
C30_Witness ==
  \E w \in Workers :
    /\ Len(obs[w].attempts) >= 2
    /\ obs[w].attempts[1].target.address # obs[w].attempts[2].target.address
    /\ Len(curl[w].resolve) = 2
    /\ curl[w].dns = {OverrideOf(obs[w].attempts[2])}

----------------------------------------------------------------------------
----------------------------------------------------------------------------
\* Thread w is past the comparison of set_remote_ip
PastCompare(w) ==
  pc[w] \in {"lock", "decrement", "remove", "increment", "unlock", "store"}

\* C31: set_remote_ip(v) does nothing when v is the entry's current
\* remote_ip: a thread gets past the comparison, to the mutex and the
\* counters, only with a value that differs, so a second call with the same
\* non-empty x adds nothing to x's counter (one entry never counts for more
\* than one), and a call with "" on an empty entry takes no lock.
C31_NoOpOnSameValue ==
  /\ \A w \in Workers :
       /\ PastCompare(w) => loc[w].value # remote_ip[w]
       /\ lock = w => loc[w].value # remote_ip[w]
  /\ (\A w \in Workers : ~PastCompare(w)) =>
       \A ip \in IpStrs :
         CountOf(ip) <= Cardinality({w \in Workers : remote_ip[w] = ip})

\* The second of two calls with the same non-empty x is at its comparison,
\* the first has counted once; another thread calls with "" on an empty entry
C31_Witness ==
  \E v, w \in Workers :
    /\ v # w
    /\ pc[w] = "set_remote_ip"
    /\ loc[w].value # ""
    /\ loc[w].value = remote_ip[w]
    /\ CountOf(remote_ip[w]) = 1
    /\ pc[v] = "set_remote_ip"
    /\ loc[v].value = ""
    /\ remote_ip[v] = ""
    /\ lock = 0

----------------------------------------------------------------------------
\* Thread w is between pthread_mutex_lock and pthread_mutex_unlock
InCriticalSection(w) ==
  pc[w] \in {"decrement", "remove", "increment", "unlock"}

----------------------------------------------------------------------------
\* The characters of s without the spaces, and with capitals made small
NoSpaces(s) == SelectSeq(s, LAMBDA c : c # " ")
Small(s) ==
  [k \in 1..Len(s) |-> IF s[k] = "E" THEN "e" ELSE IF s[k] = "R" THEN "r" ELSE s[k]]

\* The place of the first colon of line l; Len(l) + 1 when it has none
FirstColon(l) ==
  CHOOSE c \in 1..(Len(l) + 1) :
    /\ c <= Len(l) => l[c] = ":"
    /\ \A k \in 1..(c - 1) : l[k] # ":"

\* The key and the value line l stands for
KeyOf(l) == NoSpaces(Small(SubSeq(l, 1, FirstColon(l) - 1)))
ValueOf(l) == NoSpaces(SubSeq(l, FirstColon(l) + 1, Len(l)))

\* C33: the header-line parser takes the text before the first colon (the
\* whole line when there is none) as the key, lowercased and without
\* whitespace, and the text after the first colon without whitespace as the
\* value (empty when there is no colon); of the lines with one key the last
\* gives the value; every line is reported consumed in full.
C33_HeaderLineParser ==
  (response.header_function /\ response.attempts = 1) =>
    /\ DOMAIN response.headers =
         {KeyOf(response.lines[k]) : k \in 1..Len(response.lines)}
    /\ \A k \in 1..Len(response.lines) :
         (\A j \in (k + 1)..Len(response.lines) :
            KeyOf(response.lines[j]) # KeyOf(response.lines[k]))
           => response.headers[KeyOf(response.lines[k])]
                = ValueOf(response.lines[k])
    /\ Len(response.consumed) = Len(response.lines)
    /\ \A k \in 1..Len(response.lines) :
         response.consumed[k] = Len(response.lines[k])

\* "E: a" then "e:b": one key, e, with the value of the second line
C33_Witness ==
  /\ response.header_function
  /\ response.attempts = 1
  /\ response.lines = << <<"E", ":", " ", "a">>, <<"e", ":", "b">> >>
  /\ DOMAIN response.headers = { <<"e">> }
  /\ response.headers[<<"e">>] = <<"b">>

----------------------------------------------------------------------------
\* The custom verb a method sets
VerbOf(method) ==
  CASE method = "PUT" -> "PUT" [] method = "DELETE" -> "DELETE" [] OTHER -> ""

\* C34: after every send_request the per-request options of the handle
\* (header list, custom verb, header callback and its destination, body,
\* POST flag) are back at their defaults, so the next request on the handle
\* runs with its own method, body, headers and header callback only.
C34_OptionsReset ==
  /\ handle.now = NoOptions
  /\ request.method # "none" =>
       /\ handle.sent.http_header = request.http_header
       /\ handle.sent.postfields = request.body
       /\ handle.sent.custom_request = VerbOf(request.method)
       /\ handle.sent.post = (request.method = "POST")
       /\ handle.sent.header_function = (request.method \in {"PUT", "POST"})
       /\ handle.sent.write_header = (request.method \in {"PUT", "POST"})

\* A GET after a PUT with a body: no verb, no body, no header callback
C34_Witness ==
  /\ handle.previous = [method |-> "PUT", body |-> TRUE]
  /\ request.method = "GET"
  /\ handle.sent.postfields = ""
  /\ handle.sent.custom_request = ""
  /\ ~handle.sent.header_function

----------------------------------------------------------------------------
\* C37: right after update_deadline(now_ms) the deadline is at or after
\* now_ms, so the entry is not expired at the instant the call used; and
\* update_deadline runs only on an entry that was expired at that instant.
C37_NotExpiredAfterUpdate ==
  \A w \in SeqWorkers :
    (InCall(w) /\ obs[w].deadline_updates > 0) =>
      /\ deadline_ms[w] >= loc[w].now_ms
      /\ ~(loc[w].now_ms > deadline_ms[w])
      /\ loc[w].now_ms > obs[w].deadline_ms
      /\ loc[w].recycle_conn

\* The update of an entry whose deadline had passed by less than the
\* sampled interval: the new deadline counts from the old one
C37_Witness ==
  \E w \in SeqWorkers :
    /\ InCall(w)
    /\ obs[w].deadline_updates = 1
    /\ obs[w].deadline_ms > 0
    /\ loc[w].now_ms > obs[w].deadline_ms
    /\ deadline_ms[w] > obs[w].deadline_ms
    /\ deadline_ms[w] = loc[w].now_ms

----------------------------------------------------------------------------
\* C36: the body a call returns holds bytes of its final attempt only: the
\* buffer is emptied before every attempt, so what an earlier, failed attempt
\* of the call delivered (a 503 body, say) is not in it.
C36_BodyOfFinalAttempt ==
  \A w \in SeqWorkers :
    (InCall(w) /\ obs[w].attempts # <<>>) =>
      /\ \A k \in 1..Len(loc[w].doc) : loc[w].doc[k] = Len(obs[w].attempts)
      /\ Len(loc[w].doc) <= 1
      /\ obs[w].perform.rc = "CURLE_OK" => loc[w].doc = <<Len(obs[w].attempts)>>

\* A 503 with a body from the first target, then a failed connection to the
\* second: the body returned is empty
C36_Witness ==
  \E w \in SeqWorkers :
    /\ pc[w] = "returned"
    /\ Len(obs[w].attempts) = 2
    /\ obs[w].attempts[1].outcome = "http_503"
    /\ obs[w].attempts[2].outcome = "connect_failure"
    /\ loc[w].doc = <<>>

----------------------------------------------------------------------------
\* C35: when a thread is torn down, its entry's remote_ip is set to empty,
\* which takes its count off the table and removes the row at zero, before
\* the entry, its pending override list and the handle are released; and
\* when every thread that used the connection has been torn down, the table
\* of remote IPs has no row.
C35_TeardownEmptiesTable ==
  /\ \A w \in Workers :
       /\ pc[w] = "delete" =>
            /\ remote_ip[w] = ""
            /\ lock # w
            /\ curl[w].exists
       /\ ~curl[w].exists =>
            /\ pc[w] = "idle"
            /\ remote_ip[w] = ""
            /\ host_resolve[w] = <<>>
  /\ (\A w \in Workers : ~curl[w].exists) => DOMAIN stat_table = {}

\* A thread being torn down is about to remove the row of its IP, now at
\* zero; every other thread has been torn down already
C35_Witness ==
  \E w \in Workers :
    /\ pc[w] = "remove"
    /\ loc[w].ret = "delete"
    /\ stat_table[remote_ip[w]] = 0
    /\ \A v \in Workers \ {w} : ~curl[v].exists /\ remote_ip[v] = ""

----------------------------------------------------------------------------
\* The position of the first peer of peers whose host is h, 0 when none is
FirstMatch(peers, h) ==
  IF \E k \in 1..Len(peers) : host(peers[k]) = h
  THEN CHOOSE k \in 1..Len(peers) :
         host(peers[k]) = h /\ \A j \in 1..(k - 1) : host(peers[j]) # h
  ELSE 0

\* peers without its element at position k
Without(peers, k) ==
  [j \in 1..(Len(peers) - 1) |-> IF j < k THEN peers[j] ELSE peers[j + 1]]

Registered(type) ==
  type \in {"HOOK_PEER_CONNECT_SUCCESS", "HOOK_PEER_CONNECT_FAILED"}

\* The callback has done its work on _peers and the listeners and still
\* holds the lock
Scanned == stack.pc \in {"after", "unlock"}

\* What a scan for a registered type has done
ScanOutcome ==
  \E k \in {FirstMatch(stack.before, stack.peer)} :
    IF k = 0
    THEN stack._peers = stack.before /\ stack.events = <<>>
    ELSE IF stack.type = "HOOK_PEER_CONNECT_FAILED"
    THEN /\ stack._peers = Without(stack.before, k)
         /\ stack.events = <<Event("erase", stack.before[k]),
                             Event("connection_failed", stack.before[k])>>
    ELSE /\ stack._peers = stack.before
         /\ stack.events = <<Event("connection_succeeded", stack.before[k]),
                             Event("set_connected", stack.before[k])>>
         /\ stack.before[k] \in stack.connected

\* C38: a PEER_CONNECT_FAILED callback for a host that has a peer removes
\* the first such peer and nothing else, and then calls that peer's
\* connection_failed once; a PEER_CONNECT_SUCCESS callback keeps _peers,
\* calls the first such peer's connection_succeeded once and then marks it
\* connected; a callback of another type or without a peer changes nothing
\* and calls nothing; the lock is held from the start of the scan until the
\* callback releases it, and is free on every return.
C38_HookCallback ==
  /\ [](/\ stack._peers_lock <=> stack.pc \in {"scan", "after", "unlock"}
        /\ stack.pc = "scan" =>
             stack._peers = stack.before /\ stack.events = <<>>
        /\ Scanned => Registered(stack.type) /\ stack.peer # "NULL"
        /\ Scanned => ScanOutcome
        /\ stack.pc = "return" =>
             /\ ~Registered(stack.type) \/ stack.peer = "NULL"
             /\ stack.events = <<>>)
  /\ [][stack.pc = "idle" /\ stack'.pc = "return" =>
          /\ stack'._peers = stack._peers
          /\ stack'.connected = stack.connected]_vars

\* A failed connection to a host that two peers of _peers name, the first
\* of them not at the front, has been handled
C38_Witness ==
  /\ stack.pc = "unlock"
  /\ stack.type = "HOOK_PEER_CONNECT_FAILED"
  /\ Len(stack.before) = 3
  /\ FirstMatch(stack.before, stack.peer) = 2
  /\ Len(stack._peers) = 2

\* C39: the "unexpected host" diagnostic is logged only by a callback whose
\* host no peer of _peers has; a callback that matched a peer, whatever its
\* position, does not log it.
C39_DiagnosticOnlyWithoutMatch ==
  stack.pc = "unlock" /\ "Unexpected host" \in stack.log =>
    FirstMatch(stack.before, stack.peer) = 0

----------------
\* C40: the timespec given to fd_msg_send_timeout is the clock reading plus
\* timeout_ms exactly: its tv_nsec is in [0, 10^9) and it is timeout_ms *
\* 10^6 nanoseconds after the clock reading.  With timeout_ms = 1000 q + r
\* the equation tv_sec * 10^9 + tv_nsec = now_ns + timeout_ms * 10^6 is
\* (tv_sec - now.tv_sec - q) * 10^9 + tv_nsec - now.tv_nsec = r * 10^6.
C40_ExactDeadline ==
  timeout_ts.sent =>
    /\ 0 <= timeout_ts.tv_nsec
    /\ timeout_ts.tv_nsec < 1000000000
    /\ (timeout_ts.tv_sec - timeout_ts.now.tv_sec
          - (timeout_ts.timeout_ms \div 1000)) * 1000000000
         + (timeout_ts.tv_nsec - timeout_ts.now.tv_nsec)
       = (timeout_ts.timeout_ms % 1000) * 1000000

\* A send whose milliseconds carry into the next second
C40_Witness ==
  /\ timeout_ts.sent
  /\ timeout_ts.timeout_ms % 1000 # 0
  /\ timeout_ts.tv_nsec < timeout_ts.now.tv_nsec
  /\ timeout_ts.tv_sec =
       timeout_ts.now.tv_sec + (timeout_ts.timeout_ms \div 1000) + 1

====
